---- MODULE Spec2Model ----
(***************************************************************************)
(* State-machine model of drivers/dma/fsl-edma.c (Freescale eDMA engine   *)
(* with DMAMUX): per-channel software state, the virt-dma descriptor      *)
(* lists, the TCD pool, the controller registers the driver reads and     *)
(* writes, the interrupt handlers and the power-management callbacks.     *)
(*                                                                         *)
(* Atomicity follows the locking of the source: a region executed with    *)
(* vchan.lock held is one step; code that runs without the lock (the      *)
(* error handlers, fsl_edma_resume_early, the interval between reading an  *)
(* interrupt status register and taking the lock) is split into the steps  *)
(* between which other contexts can run.                                   *)
(***************************************************************************)
EXTENDS Integers, Sequences, FiniteSets, TLC

\* ------------------------------------------------------------------ sizes
NChans == 2          \* "dma-channels" of the controller node
DMAMUX_NR == 2
MaxDesc == 2         \* descriptors ever prepared in one run
MaxSgLen == 2        \* TCDs per descriptor
PoolCap == 3         \* blocks a channel's tcd_pool can hand out
MaxSlaveId == 1      \* largest DMAMUX source id a client asks for

Chans == 0 .. (NChans - 1)
DescIds == 1 .. MaxDesc
NULL == 0
\* sizeof(struct fsl_edma_tcd), the block size and alignment of tcd_pool.
TcdSize == 32
\* The bus address of the first block of the first tcd_pool.
TcdPoolBase == 8192

Socs == {"vf610", "s32v234", "s32gen1"}
Lines == {"tx", "err"}

DMA_MIN_COOKIE == 1
EDMAMUX_CHCFG_DIS == 0
EDMAMUX_CHCFG_ENBL == 128
EDMA_CR_ERCA == 4
EDMA_CR_ERGA == 8
EDMA3_MP_CSR_ERCA == 4

VARIABLES
    soc,              \* fsl_edma->socdata, chosen by the compatible string
    status,           \* fsl_chan->status
    pm_state,         \* fsl_chan->pm_state
    idle,             \* fsl_chan->idle
    slave_id,         \* fsl_chan->slave_id
    edesc,            \* fsl_chan->edesc (NULL or a descriptor)
    fsc_dir,          \* fsl_chan->fsc.dir
    client_count,     \* chan->client_count
    vc,               \* virt_dma_chan: the four descriptor lists and the cookies
    desc,             \* the fsl_edma_desc objects
    pool,             \* blocks currently taken from fsl_chan->tcd_pool
    hw,               \* per-channel controller registers
    cr,               \* EDMA_CR / EDMA3_MP_CSR
    mux,              \* DMAMUX CHCFG bytes, by <<bank, offset>>
    irq,              \* the interrupt handlers in flight, by interrupt line
    pm,               \* the power-management callback in flight
    oops,             \* a kernel fault has been taken
    fsc,              \* fsl_chan->fsc: addr_width, burst, dev_addr, attr
    tcd,              \* edesc->cyclic_len and edesc->tcd[]: ptcd and *vtcd
    hw_tcd,           \* the channel's TCD registers (addresses and counts)
    txstate,          \* what the last fsl_edma_tx_status call reported
    tcd_le,           \* the bytes of one struct fsl_edma_tcd in memory
    tcd_io            \* the TCD registers of one channel as bytes on the bus,
                      \* edma->big_endian and the position in
                      \* fsl_edma_set_tcd_regs

vars == <<soc, status, pm_state, idle, slave_id, edesc, fsc_dir, client_count,
          vc, desc, pool, hw, cr, mux, irq, pm, oops, fsc, tcd, hw_tcd,
          txstate, tcd_le, tcd_io>>

\* The variables holding TCD contents and the residue report.
tcdvars == <<fsc, tcd, hw_tcd, txstate, tcd_le, tcd_io>>

chanvars == <<status, pm_state, idle, slave_id, edesc, fsc_dir, client_count>>

\* ---------------------------------------------------------------- helpers
Min(S) == CHOOSE x \in S : \A y \in S : x <= y

Range(s) == {s[i] : i \in 1 .. Len(s)}

\* --------------------------------------------------- generation selection
\* socdata->ops: fsl_edma3_ops for s32gen1, fsl_edma_ops for the other two.
IsEdma3 == soc = "s32gen1"

\* The register block that is really behind membase.
HwGen == IF soc = "s32gen1" THEN 3 ELSE 2

vf610_mux_channel_mapping(channel_id) == channel_id

\* A mapping that rotates each group of four instead of mirroring it.
mux_channel_mapping_rotated(channel_id) ==
    (4 * (channel_id \div 4)) + ((channel_id + 1) % 4)

s32v234_mux_channel_mapping(channel_id) ==
    (4 * (channel_id \div 4)) + ((4 - (channel_id % 4)) - 1)

mux_channel_mapping(channel_id) ==
    IF soc = "vf610" THEN vf610_mux_channel_mapping(channel_id)
    ELSE s32v234_mux_channel_mapping(channel_id)

chans_per_mux == NChans \div DMAMUX_NR

\* The byte offsets of the channel configuration registers of one DMAMUX:
\* one register for each of its sixteen channels.
MuxOffs == 0 .. 15

MuxRegs == (0 .. (DMAMUX_NR - 1)) \X MuxOffs

\* ------------------------------------------------------ request enable ops
\* Each operator maps the register state h to the register state after the
\* writes.  The eDMA2 functions write the byte registers SEEI/SERQ/CERQ/CEEI
\* at membase+0x18..0x1B; on an eDMA3 block these offsets are not the
\* channel's CHn_CSR, so the channel's ERQ/EEI bits keep their value.
fsl_edma_enable_request(h, ch) ==
    IF HwGen = 2 THEN [h EXCEPT ![ch].eei = TRUE, ![ch].erq = TRUE] ELSE h

fsl_edma_disable_request(h, ch) ==
    IF HwGen = 2 THEN [h EXCEPT ![ch].erq = FALSE, ![ch].eei = FALSE] ELSE h

fsl_edma3_enable_request(h, ch) ==
    IF HwGen = 3 THEN [h EXCEPT ![ch].erq = TRUE, ![ch].eei = TRUE] ELSE h

fsl_edma3_disable_request(h, ch) ==
    IF HwGen = 3 THEN [h EXCEPT ![ch].erq = FALSE, ![ch].eei = FALSE] ELSE h

fsl_edma_enable_arbitration == EDMA_CR_ERGA + EDMA_CR_ERCA

fsl_edma3_enable_arbitration == EDMA3_MP_CSR_ERCA

\* socdata->ops->...
edma_enable_request(h, ch) ==
    IF IsEdma3 THEN fsl_edma3_enable_request(h, ch)
    ELSE fsl_edma_enable_request(h, ch)

edma_disable_request(h, ch) ==
    IF IsEdma3 THEN fsl_edma3_disable_request(h, ch)
    ELSE fsl_edma_disable_request(h, ch)

edma_enable_arbitration ==
    IF IsEdma3 THEN fsl_edma3_enable_arbitration ELSE fsl_edma_enable_arbitration

\* ------------------------------------------------------------------- mux
EDMAMUX_CHCFG_SOURCE(n) == n % 64

\* fsl_edma_chan_mux that writes the slot number as it was passed.
chan_mux_unmasked(n_chans, m, ch, slot, enable) ==
    LET per_mux == n_chans \div DMAMUX_NR
    IN [m EXCEPT ![<<ch \div per_mux, mux_channel_mapping(ch % per_mux)>>] =
            IF enable THEN EDMAMUX_CHCFG_ENBL + slot ELSE EDMAMUX_CHCFG_DIS]

\* fsl_edma_chan_mux on a controller of n_chans channels: one iowrite8 to the
\* register at muxbase[ch / chans_per_mux] + ch_off.
fsl_edma_chan_mux_n(n_chans, m, ch, slot, enable) ==
    LET per_mux == n_chans \div DMAMUX_NR
        ch_off == mux_channel_mapping(ch % per_mux)
        bank == ch \div per_mux
    IN [m EXCEPT ![<<bank, ch_off>>] =
            IF enable THEN EDMAMUX_CHCFG_ENBL + EDMAMUX_CHCFG_SOURCE(slot)
            ELSE EDMAMUX_CHCFG_DIS]

fsl_edma_chan_mux(m, ch, slot, enable) ==
    fsl_edma_chan_mux_n(NChans, m, ch, slot, enable)

\* ------------------------------------------------------------ descriptors
\* csr flags fsl_edma_fill_tcd is asked to set in tcd[i] of a descriptor:
\* prep_dma_cyclic passes (major_int, disable_req, enable_sg) = (1, 0, 1) for
\* every entry, prep_slave_sg (0, 0, 1) for i < sg_len - 1 and (1, 1, 0) for
\* the last entry.
TcdCsr(d, i) ==
    IF d.iscyclic THEN {"INT_MAJOR", "E_SG"}
    ELSE IF i < d.n_tcds - 1 THEN {"E_SG"}
    ELSE {"INT_MAJOR", "D_REQ"}

\* tcd[i].dlast_sga as an index into the descriptor's tcd[] (-1: no link).
TcdLink(d, i) ==
    IF d.iscyclic THEN (i + 1) % d.n_tcds
    ELSE IF i < d.n_tcds - 1 THEN i + 1
    ELSE -1

NoDesc == [st |-> "none", echan |-> 0, iscyclic |-> FALSE, n_tcds |-> 0,
           cookie |-> 0]

\* A descriptor after kfree: its memory holds nothing the driver may rely on.
FreedDesc == [st |-> "freed", echan |-> 0, iscyclic |-> FALSE, n_tcds |-> 0,
              cookie |-> 0]

FreeIds == {d \in DescIds : desc[d].st = "none"}

is_slave_direction(dir) == dir \in {"DMA_MEM_TO_DEV", "DMA_DEV_TO_MEM"}

\* vchan_get_all_descriptors: allocated, submitted, issued, completed.
vchan_get_all_descriptors(v) ==
    v.desc_allocated \o v.desc_submitted \o v.desc_issued \o v.desc_completed

\* ----------------------------------------------------------------- Init
InitHw == [erq |-> FALSE, eei |-> FALSE, int |-> FALSE, err |-> FALSE,
           tcd_desc |-> NULL, tcd_idx |-> 0, csr |-> {}]

InitVc == [desc_allocated |-> <<>>, desc_submitted |-> <<>>,
           desc_issued |-> <<>>, desc_completed |-> <<>>,
           cookie |-> DMA_MIN_COOKIE, completed_cookie |-> DMA_MIN_COOKIE]

\* fsl_chan comes from devm_kzalloc: fsc is all zero.
InitFsc == [addr_width |-> 0, burst |-> 0, dev_addr |-> 0, attr |-> 0]

\* The fields of struct fsl_edma_hw_tcd, csr as the set of its flags.
ZeroTcd == [saddr |-> 0, soff |-> 0, attr |-> 0, nbytes |-> 0, slast |-> 0,
            daddr |-> 0, doff |-> 0, citer |-> 0, dlast_sga |-> 0,
            csr |-> {}, biter |-> 0]

\* A descriptor whose TCD contents are not followed.
NoTcds == [cyclic_len |-> 0, tcd |-> <<>>]

\* No fsl_edma_tx_status call has returned yet.
NoTxState == [cookie |-> 0, ret |-> "none", residue |-> 0,
              in_progress |-> FALSE]

IdleIrq == [run |-> "idle", todo |-> {}, scan |-> {}, handled |-> FALSE,
            ph |-> 0]

\* The state fsl_edma_probe leaves: the engine is kzalloc'ed (status is
\* DMA_COMPLETE = 0, edesc NULL, fsc.dir = 0), every channel RUNNING, idle,
\* slave_id 0, TCD csr cleared, mux slot disabled, round robin enabled.
InitCommon ==
    /\ soc \in Socs
    /\ status = [ch \in Chans |-> "DMA_COMPLETE"]
    /\ pm_state = [ch \in Chans |-> "RUNNING"]
    /\ idle = [ch \in Chans |-> TRUE]
    /\ slave_id = [ch \in Chans |-> 0]
    /\ edesc = [ch \in Chans |-> NULL]
    /\ fsc_dir = [ch \in Chans |-> "DMA_MEM_TO_MEM"]
    /\ client_count = [ch \in Chans |-> 0]
    /\ vc = [ch \in Chans |-> InitVc]
    /\ desc = [d \in DescIds |-> NoDesc]
    /\ pool = [ch \in Chans |-> 0]
    /\ hw = [ch \in Chans |-> InitHw]
    /\ cr = edma_enable_arbitration
    /\ mux = [r \in MuxRegs |-> EDMAMUX_CHCFG_DIS]
    /\ irq = [l \in Lines |-> IdleIrq]
    /\ pm = [op |-> "running", i |-> 0, ph |-> 0]
    /\ oops = FALSE
    /\ fsc = [ch \in Chans |-> InitFsc]
    /\ tcd = [d \in DescIds |-> NoTcds]
    /\ hw_tcd = [ch \in Chans |-> ZeroTcd]
    /\ txstate = NoTxState
    /\ tcd_le = [a \in 0 .. (TcdSize - 1) |-> 0]

\* A controller without the "big-endian" property, none of its TCD registers
\* written yet.
Init ==
    /\ InitCommon
    /\ tcd_io = [be |-> FALSE, pc |-> 0, reg |-> [a \in 0 .. (TcdSize - 1) |-> 0]]


\* ------------------------------------------------- the state a step works on
\* The fields a locked region or a handler reads and writes, as one record:
\* the operators below map it to the record after the code has run.
Cur == [status |-> status, idle |-> idle, edesc |-> edesc, hw |-> hw,
        vc |-> vc, desc |-> desc, pool |-> pool, oops |-> oops]

Commit(s) ==
    /\ status' = s.status
    /\ idle' = s.idle
    /\ edesc' = s.edesc
    /\ hw' = s.hw
    /\ vc' = s.vc
    /\ desc' = s.desc
    /\ pool' = s.pool
    /\ oops' = s.oops

\* ----------------------------------------------------- virt-dma (virt-dma.h)
RemoveFrom(l, d) == SelectSeq(l, LAMBDA x : x # d)

\* list_del(&vd->node): the node leaves the list it is on.
list_del(v, d) ==
    [v EXCEPT !.desc_allocated = RemoveFrom(@, d),
              !.desc_submitted = RemoveFrom(@, d),
              !.desc_issued = RemoveFrom(@, d),
              !.desc_completed = RemoveFrom(@, d)]

\* vchan_next_desc: the first entry of desc_issued, not removed.
vchan_next_desc(v) ==
    IF v.desc_issued = <<>> THEN NULL ELSE Head(v.desc_issued)

\* vchan_issue_pending: splice desc_submitted to the tail of desc_issued.
vchan_issue_pending(v) ==
    [v EXCEPT !.desc_issued = @ \o v.desc_submitted, !.desc_submitted = <<>>]

\* vchan_cookie_complete: dma_cookie_complete, then desc_completed gets vd.
vchan_cookie_complete(s, ch, d) ==
    [s EXCEPT !.vc[ch].completed_cookie = s.desc[d].cookie,
              !.vc[ch].desc_completed = Append(@, d)]

\* vchan_find_desc: the issued descriptor with this cookie.
vchan_find_desc(v, dd, cookie) ==
    LET hit == {d \in Range(v.desc_issued) : dd[d].cookie = cookie}
    IN IF hit = {} THEN NULL ELSE CHOOSE d \in hit : TRUE

\* dma_cookie_status / dma_async_is_complete.
dma_cookie_status(v, cookie) ==
    LET used == v.cookie
        complete == v.completed_cookie
    IN IF complete <= used
       THEN IF cookie <= complete \/ cookie > used
            THEN "DMA_COMPLETE" ELSE "DMA_IN_PROGRESS"
       ELSE IF cookie <= complete /\ cookie > used
            THEN "DMA_COMPLETE" ELSE "DMA_IN_PROGRESS"

\* ------------------------------------------------------------ driver helpers
\* fsl_edma_free_desc: every TCD block of the descriptor goes back to the pool
\* of its channel, then the descriptor is freed.  Freeing a descriptor that is
\* not live is a double free.
fsl_edma_free_desc(s, d) ==
    IF s.desc[d].st # "live" THEN [s EXCEPT !.oops = TRUE]
    ELSE [s EXCEPT !.pool[s.desc[d].echan] = @ - s.desc[d].n_tcds,
                   !.desc[d] = FreedDesc]

\* dma_pool_free in fsl_edma_free_desc: the TCD blocks of a descriptor that
\* was freed in this step hold nothing the driver may rely on.
TcdsFreed ==
    tcd' = [d \in DescIds |-> IF desc'[d].st = "live" THEN tcd[d] ELSE NoTcds]

\* fsl_edma_set_tcd_regs, the values written: a step that makes a descriptor
\* the channel's edesc has run fsl_edma_xfer_desc, which writes the first TCD
\* of the descriptor to the registers of the channel.
TcdRegsLoaded ==
    hw_tcd' = [ch \in Chans |->
                  IF /\ edesc'[ch] # NULL
                     /\ edesc'[ch] # edesc[ch]
                     /\ tcd[edesc'[ch]].tcd # <<>>
                  THEN tcd[edesc'[ch]].tcd[1].vtcd
                  ELSE hw_tcd[ch]]

\* vchan_dma_desc_free_list: desc_free on every entry of the list.
RECURSIVE vchan_dma_desc_free_list(_, _)
vchan_dma_desc_free_list(s, l) ==
    IF l = <<>> THEN s
    ELSE vchan_dma_desc_free_list(fsl_edma_free_desc(s, Head(l)), Tail(l))

\* fsl_edma_set_tcd_regs(fsl_chan, edesc->tcd[0].vtcd): csr is cleared, the
\* fields of the TCD are written, csr is written last.
fsl_edma_set_tcd_regs(h, ch, d, dd) ==
    [h EXCEPT ![ch].tcd_desc = d, ![ch].tcd_idx = 0, ![ch].csr = TcdCsr(dd[d], 0)]

\* fsl_edma_xfer_desc without the edma_enable_request call.
xfer_desc_no_enable(s, ch) ==
    LET vdesc == vchan_next_desc(s.vc[ch])
    IN IF vdesc = NULL THEN s
       ELSE [s EXCEPT !.edesc[ch] = vdesc,
                      !.hw = fsl_edma_set_tcd_regs(s.hw, ch, vdesc, s.desc),
                      !.status[ch] = "DMA_IN_PROGRESS",
                      !.idle[ch] = FALSE]

\* fsl_edma_xfer_desc that takes the newest entry of desc_issued.
xfer_desc_newest(s, ch) ==
    LET l == s.vc[ch].desc_issued
        vdesc == IF l = <<>> THEN NULL ELSE l[Len(l)]
    IN IF vdesc = NULL THEN s
       ELSE [s EXCEPT !.edesc[ch] = vdesc,
                      !.hw = edma_enable_request(
                                 fsl_edma_set_tcd_regs(s.hw, ch, vdesc, s.desc), ch),
                      !.status[ch] = "DMA_IN_PROGRESS",
                      !.idle[ch] = FALSE]

fsl_edma_xfer_desc(s, ch) ==
    LET vdesc == vchan_next_desc(s.vc[ch])
    IN IF vdesc = NULL THEN s
       ELSE [s EXCEPT !.edesc[ch] = vdesc,
                      !.hw = edma_enable_request(
                                 fsl_edma_set_tcd_regs(s.hw, ch, vdesc, s.desc), ch),
                      !.status[ch] = "DMA_IN_PROGRESS",
                      !.idle[ch] = FALSE]

\* --------------------------------------------------------- client operations
\* Every client operation is called on a channel the client holds
\* (client_count = 1), and nothing runs after a kernel fault.
Held(ch) == client_count[ch] = 1 /\ ~oops

SlaveDirs == {"DMA_MEM_TO_MEM", "DMA_MEM_TO_DEV", "DMA_DEV_TO_MEM"}

fsl_edma_slave_config(ch, dir) ==
    /\ Held(ch)
    /\ fsc_dir' = [fsc_dir EXCEPT ![ch] = dir]
    /\ UNCHANGED <<soc, tcdvars, status, pm_state, idle, slave_id, edesc, client_count,
                   vc, desc, pool, hw, cr, mux, irq, pm, oops>>

\* The prep callbacks return NULL when fsc.dir is not a slave direction or
\* fsl_edma_alloc_desc cannot get sg_len blocks from the pool.
PrepFails(ch, sg_len) ==
    ~is_slave_direction(fsc_dir[ch]) \/ pool[ch] + sg_len > PoolCap

\* The err: path of fsl_edma_alloc_desc with the first block left out.
alloc_desc_err_keep_first(i) == IF i > 1 THEN i - 1 ELSE 0

\* The err: path of fsl_edma_alloc_desc, entered when dma_pool_alloc fails
\* with i blocks taken: the number of blocks "while (--i >= 0)" gives back
\* with dma_pool_free.
RECURSIVE alloc_desc_err(_)
alloc_desc_err(i) ==
    IF i - 1 >= 0 THEN 1 + alloc_desc_err(i - 1) ELSE 0

\* fsl_edma_alloc_desc + vchan_tx_prep reached without the is_slave_direction
\* test of the prep callbacks.
prep_desc_any_direction(ch, sg_len, cyclic) ==
    IF pool[ch] + sg_len > PoolCap
    THEN UNCHANGED <<vc, desc, pool>>
    ELSE LET d == Min(FreeIds)
         IN /\ desc' = [desc EXCEPT ![d] = [st |-> "live", echan |-> ch,
                                             iscyclic |-> cyclic,
                                             n_tcds |-> sg_len, cookie |-> 0]]
            /\ pool' = [pool EXCEPT ![ch] = @ + sg_len]
            /\ vc' = [vc EXCEPT ![ch].desc_allocated = Append(@, d)]

\* fsl_edma_alloc_desc + vchan_tx_prep: sg_len blocks leave the pool and the
\* descriptor is put on desc_allocated; NULL when the direction is not a
\* slave direction (nothing is allocated) or the pool cannot give sg_len
\* blocks (the blocks taken until then go through the err: path).
PrepDesc(ch, sg_len, cyclic) ==
    IF PrepFails(ch, sg_len)
    THEN /\ UNCHANGED <<vc, desc>>
         /\ pool' = IF is_slave_direction(fsc_dir[ch])
                    THEN LET i == PoolCap - pool[ch]
                         IN  [pool EXCEPT ![ch] = (@ + i) - alloc_desc_err(i)]
                    ELSE pool
    ELSE LET d == Min(FreeIds)
         IN /\ desc' = [desc EXCEPT ![d] = [st |-> "live", echan |-> ch,
                                             iscyclic |-> cyclic,
                                             n_tcds |-> sg_len, cookie |-> 0]]
            /\ pool' = [pool EXCEPT ![ch] = @ + sg_len]
            /\ vc' = [vc EXCEPT ![ch].desc_allocated = Append(@, d)]

fsl_edma_prep_slave_sg(ch, sg_len) ==
    /\ Held(ch)
    /\ FreeIds # {}
    /\ PrepDesc(ch, sg_len, FALSE)
    /\ UNCHANGED <<soc, tcdvars, chanvars, hw, cr, mux, irq, pm, oops>>

fsl_edma_prep_dma_cyclic(ch, sg_len) ==
    /\ Held(ch)
    /\ FreeIds # {}
    /\ PrepDesc(ch, sg_len, TRUE)
    /\ UNCHANGED <<soc, tcdvars, chanvars, hw, cr, mux, irq, pm, oops>>

\* vchan_tx_submit: dma_cookie_assign, then the descriptor moves from
\* desc_allocated to the tail of desc_submitted.
vchan_tx_submit(ch) ==
    /\ Held(ch)
    /\ vc[ch].desc_allocated # <<>>
    /\ LET d == Head(vc[ch].desc_allocated)
           cookie == vc[ch].cookie + 1
       IN /\ desc' = [desc EXCEPT ![d].cookie = cookie]
          /\ vc' = [vc EXCEPT ![ch].cookie = cookie,
                              ![ch].desc_allocated = Tail(@),
                              ![ch].desc_submitted = Append(@, d)]
    /\ UNCHANGED <<soc, tcdvars, chanvars, pool, hw, cr, mux, irq, pm, oops>>

\* The locked part of fsl_edma_issue_pending without the pm_state test.
issue_pending_unfenced(s, ch) ==
    LET s1 == [s EXCEPT !.vc[ch] = vchan_issue_pending(@)]
    IN IF s1.vc[ch].desc_issued # <<>> /\ s1.edesc[ch] = NULL
       THEN fsl_edma_xfer_desc(s1, ch)
       ELSE s1

\* The locked part of fsl_edma_issue_pending without the !fsl_chan->edesc test.
issue_pending_overwrite(s, ch) ==
    IF pm_state[ch] # "RUNNING" THEN s
    ELSE LET s1 == [s EXCEPT !.vc[ch] = vchan_issue_pending(@)]
         IN IF s1.vc[ch].desc_issued # <<>>
            THEN fsl_edma_xfer_desc(s1, ch)
            ELSE s1

issue_pending_locked(s, ch) ==
    IF pm_state[ch] # "RUNNING" THEN s
    ELSE LET s1 == [s EXCEPT !.vc[ch] = vchan_issue_pending(@)]
         IN IF s1.vc[ch].desc_issued # <<>> /\ s1.edesc[ch] = NULL
            THEN fsl_edma_xfer_desc(s1, ch)
            ELSE s1

fsl_edma_issue_pending(ch) ==
    /\ Held(ch)
    /\ Commit(issue_pending_locked(Cur, ch))
    /\ TcdRegsLoaded
    /\ UNCHANGED <<soc, tcd_le, tcd_io, fsc, tcd, txstate, pm_state, slave_id, fsc_dir, client_count, cr, mux, irq, pm>>

\* The locked part of fsl_edma_pause without the edma_disable_request call.
pause_no_disable(s, ch) ==
    IF s.edesc[ch] # NULL
    THEN [s EXCEPT !.status[ch] = "DMA_PAUSED", !.idle[ch] = TRUE]
    ELSE s

pause_locked(s, ch) ==
    IF s.edesc[ch] # NULL
    THEN [s EXCEPT !.hw = edma_disable_request(s.hw, ch),
                   !.status[ch] = "DMA_PAUSED",
                   !.idle[ch] = TRUE]
    ELSE s

fsl_edma_pause(ch) ==
    /\ Held(ch)
    /\ Commit(pause_locked(Cur, ch))
    /\ UNCHANGED <<soc, tcdvars, pm_state, slave_id, fsc_dir, client_count, cr, mux, irq, pm>>

resume_locked(s, ch) ==
    IF s.edesc[ch] # NULL
    THEN [s EXCEPT !.hw = edma_enable_request(s.hw, ch),
                   !.status[ch] = "DMA_IN_PROGRESS",
                   !.idle[ch] = FALSE]
    ELSE s

fsl_edma_resume(ch) ==
    /\ Held(ch)
    /\ Commit(resume_locked(Cur, ch))
    /\ UNCHANGED <<soc, tcdvars, pm_state, slave_id, fsc_dir, client_count, cr, mux, irq, pm>>

\* fsl_edma_terminate_all taking only the issued descriptors off the channel.
terminate_issued_only(s, ch) ==
    LET head == s.vc[ch].desc_issued
        s1 == [s EXCEPT !.hw = edma_disable_request(s.hw, ch),
                        !.edesc[ch] = NULL,
                        !.idle[ch] = TRUE,
                        !.vc[ch].desc_issued = <<>>]
    IN vchan_dma_desc_free_list(s1, head)

\* The locked part takes every descriptor off the channel; they are freed
\* after the unlock from the private list head.
terminate_all(s, ch) ==
    LET head == vchan_get_all_descriptors(s.vc[ch])
        s1 == [s EXCEPT !.hw = edma_disable_request(s.hw, ch),
                        !.edesc[ch] = NULL,
                        !.idle[ch] = TRUE,
                        !.vc[ch].desc_allocated = <<>>,
                        !.vc[ch].desc_submitted = <<>>,
                        !.vc[ch].desc_issued = <<>>,
                        !.vc[ch].desc_completed = <<>>]
    IN vchan_dma_desc_free_list(s1, head)

fsl_edma_terminate_all(ch) ==
    /\ Held(ch)
    /\ Commit(terminate_all(Cur, ch))
    /\ TcdsFreed
    /\ UNCHANGED <<soc, tcd_le, tcd_io, fsc, hw_tcd, txstate, pm_state, slave_id, fsc_dir, client_count, cr, mux, irq, pm>>

\* vchan_complete (the channel's tasklet): the completed descriptors are taken
\* off desc_completed under the lock and freed with desc_free.
vchan_complete(ch) ==
    /\ ~oops
    /\ vc[ch].desc_completed # <<>>
    /\ Commit(vchan_dma_desc_free_list(
                  [Cur EXCEPT !.vc[ch].desc_completed = <<>>],
                  vc[ch].desc_completed))
    /\ TcdsFreed
    /\ UNCHANGED <<soc, tcd_le, tcd_io, fsc, hw_tcd, txstate, pm_state, slave_id, fsc_dir, client_count, cr, mux, irq, pm>>


\* ---------------------------------------------- transfer control descriptors
\* The TCD contents the prep callbacks build.  The u32 and dma_addr_t values
\* of the inputs below stay far under 2^31, so their sums and products are
\* exact; the u16 variables of the source are truncated where it assigns them.
U16(x) == x % 65536

EDMA_TCD_CITER_CITER(x) == x % 32768

EDMA_TCD_BITER_BITER(x) == x % 32768

\* SSIZE | DSIZE for the bus width; 32 bit for any other width.
fsl_edma_get_tcd_attr(addr_width) ==
    CASE addr_width = 1 -> 0
      [] addr_width = 2 -> 256 + 1
      [] addr_width = 4 -> 512 + 2
      [] addr_width = 8 -> 768 + 3
      [] OTHER -> 512 + 2

\* The bytes of one source / destination access, from TCD_ATTR.
SSizeBytes(attr) == 2 ^ ((attr \div 256) % 8)

DSizeBytes(attr) == 2 ^ (attr % 8)

\* fsl_edma_slave_config on (fsc.dir, fsc): the direction is stored first; the
\* other fields come from the src_ half of cfg for DMA_DEV_TO_MEM, from the
\* dst_ half for DMA_MEM_TO_DEV, and stay as they are otherwise (-EINVAL).
slave_config_fsc(f, cfg) ==
    IF cfg.direction = "DMA_DEV_TO_MEM"
    THEN [addr_width |-> cfg.src_addr_width, burst |-> cfg.src_maxburst,
          dev_addr |-> cfg.src_addr,
          attr |-> fsl_edma_get_tcd_attr(cfg.src_addr_width)]
    ELSE IF cfg.direction = "DMA_MEM_TO_DEV"
    THEN [addr_width |-> cfg.dst_addr_width, burst |-> cfg.dst_maxburst,
          dev_addr |-> cfg.dst_addr,
          attr |-> fsl_edma_get_tcd_attr(cfg.dst_addr_width)]
    ELSE f

fsl_edma_slave_config_cfg(ch, cfg) ==
    /\ Held(ch)
    /\ fsc_dir' = [fsc_dir EXCEPT ![ch] = cfg.direction]
    /\ fsc' = [fsc EXCEPT ![ch] = slave_config_fsc(@, cfg)]
    /\ UNCHANGED <<soc, tcd_le, tcd_io, tcd, hw_tcd, txstate, status, pm_state, idle, slave_id,
                   edesc, client_count, vc, desc, pool, hw, cr, mux, irq, pm,
                   oops>>

fsl_edma_fill_tcd(src, dst, attr, soff, nbytes, slast, citer, biter, doff, dlast_sga, major_int, disable_req, enable_sg) ==
    [saddr |-> src, daddr |-> dst, attr |-> U16(attr), soff |-> U16(soff),
     nbytes |-> nbytes, slast |-> slast,
     citer |-> EDMA_TCD_CITER_CITER(U16(citer)), doff |-> U16(doff),
     dlast_sga |-> dlast_sga, biter |-> EDMA_TCD_BITER_BITER(U16(biter)),
     csr |-> (IF major_int THEN {"INT_MAJOR"} ELSE {})
             \cup (IF disable_req THEN {"D_REQ"} ELSE {})
             \cup (IF enable_sg THEN {"E_SG"} ELSE {})]

\* fsl_chan->tcd_pool: PoolCap blocks of sizeof(struct fsl_edma_tcd) bytes,
\* one pool per channel.
PoolBlocks(ch) ==
    {TcdPoolBase + TcdSize * (ch * PoolCap + k) : k \in 0 .. (PoolCap - 1)}

\* The blocks of the pool that live descriptors hold.
UsedBlocks ==
    UNION {{tcd[d].tcd[i].ptcd : i \in DOMAIN tcd[d].tcd} :
           d \in {e \in DescIds : desc[e].st = "live"}}

\* n calls of dma_pool_alloc: the n lowest free blocks, lowest first.
RECURSIVE dma_pool_alloc(_, _)
dma_pool_alloc(free, n) ==
    IF n = 0 \/ free = {} THEN <<>>
    ELSE <<Min(free)>> \o dma_pool_alloc(free \ {Min(free)}, n - 1)

\* "/" on unsigned operands in the prep callbacks.  With a divisor of 0 the
\* quotient is 0, what the division of the ARM builds of the driver returns;
\* the outcome in which the division traps is prep_div0_trap.
udiv(a, b) == IF b = 0 THEN 0 ELSE a \div b

\* The loop of fsl_edma_prep_slave_sg with the last entry filled like the
\* others, its link the (i + 1) % sg_len entry.
slave_sg_tcds_ring(f, dir, sgl, p) ==
    [i \in 1 .. Len(sgl) |->
        LET nbytes == f.addr_width * f.burst
            mem == sgl[i].dma_address
            iter == U16(udiv(sgl[i].dma_len, nbytes))
        IN [ptcd |-> p[i],
            vtcd |-> fsl_edma_fill_tcd(
                         IF dir = "DMA_MEM_TO_DEV" THEN mem ELSE f.dev_addr,
                         IF dir = "DMA_MEM_TO_DEV" THEN f.dev_addr ELSE mem,
                         f.attr,
                         IF dir = "DMA_MEM_TO_DEV" THEN f.addr_width ELSE 0,
                         nbytes, 0, iter, iter,
                         IF dir = "DMA_MEM_TO_DEV" THEN 0 ELSE f.addr_width,
                         p[(i % Len(sgl)) + 1], FALSE, FALSE, TRUE)]]

\* The loop of fsl_edma_prep_slave_sg over the scatterlist: entry i (from 1)
\* is tcd[i - 1] of the source, p[i] its ptcd.
slave_sg_tcds(f, dir, sgl, p) ==
    [i \in 1 .. Len(sgl) |->
        LET nbytes == f.addr_width * f.burst
            mem == sgl[i].dma_address
            src_addr == IF dir = "DMA_MEM_TO_DEV" THEN mem ELSE f.dev_addr
            dst_addr == IF dir = "DMA_MEM_TO_DEV" THEN f.dev_addr ELSE mem
            soff == IF dir = "DMA_MEM_TO_DEV" THEN f.addr_width ELSE 0
            doff == IF dir = "DMA_MEM_TO_DEV" THEN 0 ELSE f.addr_width
            iter == U16(udiv(sgl[i].dma_len, nbytes))
        IN [ptcd |-> p[i],
            vtcd |-> IF i < Len(sgl)
                     THEN fsl_edma_fill_tcd(src_addr, dst_addr, f.attr, soff,
                                            nbytes, 0, iter, iter, doff,
                                            p[i + 1], FALSE, FALSE, TRUE)
                     ELSE fsl_edma_fill_tcd(src_addr, dst_addr, f.attr, soff,
                                            nbytes, 0, iter, iter, doff,
                                            0, TRUE, TRUE, FALSE)]]

\* dma_buf_next at the top of iteration i (from 0) of the loop of
\* fsl_edma_prep_dma_cyclic, after the wrap test.
RECURSIVE dma_buf_next(_, _, _, _)
dma_buf_next(dma_addr, buf_len, period_len, i) ==
    LET before == IF i = 0 THEN dma_addr
                  ELSE dma_buf_next(dma_addr, buf_len, period_len, i - 1)
                       + period_len
    IN IF before >= dma_addr + buf_len THEN dma_addr ELSE before

\* The loop of fsl_edma_prep_dma_cyclic with the last entry ending the chain
\* as fsl_edma_prep_slave_sg ends it: no link, D_REQ set.
cyclic_tcds_chain(f, dir, dma_addr, buf_len, period_len, p) ==
    LET sg_len == udiv(buf_len, period_len)
        nbytes == f.addr_width * f.burst
        iter == U16(udiv(period_len, nbytes))
    IN [i \in 1 .. sg_len |->
           LET mem == dma_buf_next(dma_addr, buf_len, period_len, i - 1)
           IN [ptcd |-> p[i],
               vtcd |-> fsl_edma_fill_tcd(
                            IF dir = "DMA_MEM_TO_DEV" THEN mem ELSE f.dev_addr,
                            IF dir = "DMA_MEM_TO_DEV" THEN f.dev_addr ELSE mem,
                            f.attr,
                            IF dir = "DMA_MEM_TO_DEV" THEN f.addr_width ELSE 0,
                            nbytes, 0, iter, iter,
                            IF dir = "DMA_MEM_TO_DEV" THEN 0 ELSE f.addr_width,
                            IF i < sg_len THEN p[i + 1] ELSE 0,
                            TRUE, i = sg_len, i < sg_len)]]

\* The loop of fsl_edma_prep_dma_cyclic: sg_len = buf_len / period_len
\* entries, entry i (from 1) is tcd[i - 1] of the source.
cyclic_tcds(f, dir, dma_addr, buf_len, period_len, p) ==
    LET sg_len == udiv(buf_len, period_len)
        nbytes == f.addr_width * f.burst
        iter == U16(udiv(period_len, nbytes))
    IN [i \in 1 .. sg_len |->
           LET mem == dma_buf_next(dma_addr, buf_len, period_len, i - 1)
               last_sg == p[(i % sg_len) + 1]
               src_addr == IF dir = "DMA_MEM_TO_DEV" THEN mem ELSE f.dev_addr
               dst_addr == IF dir = "DMA_MEM_TO_DEV" THEN f.dev_addr ELSE mem
               soff == IF dir = "DMA_MEM_TO_DEV" THEN f.addr_width ELSE 0
               doff == IF dir = "DMA_MEM_TO_DEV" THEN 0 ELSE f.addr_width
           IN [ptcd |-> p[i],
               vtcd |-> fsl_edma_fill_tcd(src_addr, dst_addr, f.attr, soff,
                                          nbytes, 0, iter, iter, doff,
                                          last_sg, TRUE, FALSE, TRUE)]]

\* fsl_edma_prep_slave_sg with the scatterlist: the descriptor of
\* PrepDesc, and its TCDs.
fsl_edma_prep_slave_sg_sgl(ch, sgl) ==
    /\ Held(ch)
    /\ FreeIds # {}
    /\ PrepDesc(ch, Len(sgl), FALSE)
    /\ tcd' = IF PrepFails(ch, Len(sgl)) THEN tcd
              ELSE [tcd EXCEPT ![Min(FreeIds)] =
                       [cyclic_len |-> 0,
                        tcd |-> slave_sg_tcds(fsc[ch], fsc_dir[ch], sgl,
                                    dma_pool_alloc(PoolBlocks(ch) \ UsedBlocks,
                                                   Len(sgl)))]]
    /\ UNCHANGED <<soc, tcd_le, tcd_io, fsc, hw_tcd, txstate, chanvars, hw, cr, mux, irq, pm,
                   oops>>

\* fsl_edma_prep_dma_cyclic with the buffer: the descriptor of PrepDesc,
\* cyclic_len and the TCDs.
fsl_edma_prep_dma_cyclic_buf(ch, dma_addr, buf_len, period_len) ==
    /\ Held(ch)
    /\ FreeIds # {}
    /\ PrepDesc(ch, udiv(buf_len, period_len), TRUE)
    /\ tcd' = IF PrepFails(ch, udiv(buf_len, period_len)) THEN tcd
              ELSE [tcd EXCEPT ![Min(FreeIds)] =
                       [cyclic_len |-> buf_len,
                        tcd |-> cyclic_tcds(fsc[ch], fsc_dir[ch], dma_addr,
                                    buf_len, period_len,
                                    dma_pool_alloc(PoolBlocks(ch) \ UsedBlocks,
                                                   udiv(buf_len, period_len)))]]
    /\ UNCHANGED <<soc, tcd_le, tcd_io, fsc, hw_tcd, txstate, chanvars, hw, cr, mux, irq, pm,
                   oops>>

\* ------------------------------------------------ channel request / release
\* fsl_edma_xlate without the test of the channel's DMAMUX.
xlate_any_bank(bank, slave) ==
    /\ ~oops
    /\ LET free == {ch \in Chans : client_count[ch] = 0}
       IN IF free = {}
          THEN UNCHANGED <<client_count, slave_id, mux>>
          ELSE LET ch == Min(free)
               IN /\ client_count' = [client_count EXCEPT ![ch] = 1]
                  /\ slave_id' = [slave_id EXCEPT ![ch] = slave]
                  /\ mux' = fsl_edma_chan_mux(mux, ch, slave, TRUE)
    /\ UNCHANGED <<soc, tcdvars, status, pm_state, idle, edesc, fsc_dir, vc, desc, pool,
                   hw, cr, irq, pm, oops>>

\* fsl_edma_xlate: the first channel of the bank nobody holds; NULL (nothing
\* changed) when the bank has none.
fsl_edma_xlate(bank, slave) ==
    /\ ~oops
    /\ LET free == {ch \in Chans : client_count[ch] = 0
                                    /\ ch \div chans_per_mux = bank}
       IN IF free = {}
          THEN UNCHANGED <<client_count, slave_id, mux>>
          ELSE LET ch == Min(free)
               IN /\ client_count' = [client_count EXCEPT ![ch] = 1]
                  /\ slave_id' = [slave_id EXCEPT ![ch] = slave]
                  /\ mux' = fsl_edma_chan_mux(mux, ch, slave, TRUE)
    /\ UNCHANGED <<soc, tcdvars, status, pm_state, idle, edesc, fsc_dir, vc, desc, pool,
                   hw, cr, irq, pm, oops>>

free_chan_resources(s, ch) ==
    LET head == vchan_get_all_descriptors(s.vc[ch])
        s1 == [s EXCEPT !.hw = edma_disable_request(s.hw, ch),
                        !.edesc[ch] = NULL,
                        !.vc[ch].desc_allocated = <<>>,
                        !.vc[ch].desc_submitted = <<>>,
                        !.vc[ch].desc_issued = <<>>,
                        !.vc[ch].desc_completed = <<>>]
    IN vchan_dma_desc_free_list(s1, head)

\* dma_release_channel: client_count drops to 0 and the driver's
\* device_free_chan_resources runs.
fsl_edma_free_chan_resources(ch) ==
    /\ Held(ch)
    /\ Commit(free_chan_resources(Cur, ch))
    /\ mux' = fsl_edma_chan_mux(mux, ch, 0, FALSE)
    /\ client_count' = [client_count EXCEPT ![ch] = 0]
    /\ TcdsFreed
    /\ UNCHANGED <<soc, tcd_le, tcd_io, fsc, hw_tcd, txstate, pm_state, slave_id, fsc_dir, cr, irq, pm>>

\* ------------------------------------------------------------ the hardware
\* The registers of the channel hold a TCD whose contents are followed.
Followed(ch) ==
    hw[ch].tcd_desc # NULL /\ tcd[hw[ch].tcd_desc].tcd # <<>>

\* The TCD in the block at bus address a.
TcdAt(a) ==
    LET hit == {x \in DescIds \X (1 .. MaxSgLen) :
                   /\ desc[x[1]].st = "live"
                   /\ x[2] <= Len(tcd[x[1]].tcd)
                   /\ tcd[x[1]].tcd[x[2]].ptcd = a}
    IN IF hit = {} THEN ZeroTcd
       ELSE LET x == CHOOSE y \in hit : TRUE
            IN tcd[x[1]].tcd[x[2]].vtcd

\* One service request: nbytes bytes are moved in accesses of SSIZE and DSIZE
\* bytes, saddr and daddr advancing by soff and doff after each access.
MinorLoop(t) ==
    [t EXCEPT !.saddr = @ + t.soff * (t.nbytes \div SSizeBytes(t.attr)),
              !.daddr = @ + t.doff * (t.nbytes \div DSizeBytes(t.attr))]

\* The channel serves one request that does not end the major loop: citer
\* counts down.
HwMinorLoop(ch) ==
    /\ ~oops
    /\ hw[ch].erq
    /\ Followed(ch)
    /\ desc[hw[ch].tcd_desc].st = "live"
    /\ hw_tcd[ch].citer > 1
    /\ hw_tcd' = [hw_tcd EXCEPT ![ch] = [MinorLoop(@) EXCEPT !.citer = @ - 1]]
    /\ UNCHANGED <<soc, tcd_le, tcd_io, fsc, tcd, txstate, chanvars, vc, desc, pool, hw, cr,
                   mux, irq, pm, oops>>

\* The channel finishes the major loop of the TCD in its registers (the
\* request that takes citer from 1 to 0): INT is raised if INT_MAJOR is set,
\* ERQ is cleared if D_REQ is set, and with E_SG the TCD at dlast_sga is
\* loaded; without E_SG slast and dlast_sga are added to the addresses and
\* citer is reloaded from biter.
HwMajorLoopDone(ch) ==
    /\ ~oops
    /\ hw[ch].erq
    /\ hw[ch].tcd_desc # NULL
    /\ hw[ch].csr # {}
    /\ desc[hw[ch].tcd_desc].st = "live"
    /\ Followed(ch) => hw_tcd[ch].citer = 1
    /\ LET h == hw[ch]
           d == desc[h.tcd_desc]
           nxt == TcdLink(d, h.tcd_idx)
           t == MinorLoop(hw_tcd[ch])
       IN /\ hw' = [hw EXCEPT
                      ![ch].int = h.int \/ "INT_MAJOR" \in h.csr,
                      ![ch].erq = ~("D_REQ" \in h.csr),
                      ![ch].tcd_idx = IF "E_SG" \in h.csr /\ nxt >= 0
                                      THEN nxt ELSE h.tcd_idx,
                      ![ch].csr = IF "E_SG" \in h.csr /\ nxt >= 0
                                  THEN TcdCsr(d, nxt) ELSE h.csr]
          /\ hw_tcd' = IF ~Followed(ch) THEN hw_tcd
                       ELSE [hw_tcd EXCEPT ![ch] =
                               IF "E_SG" \in h.csr /\ nxt >= 0
                               THEN TcdAt(t.dlast_sga)
                               ELSE [t EXCEPT !.saddr = @ + t.slast,
                                              !.daddr = @ + t.dlast_sga,
                                              !.citer = t.biter]]
    /\ UNCHANGED <<soc, tcd_le, tcd_io, fsc, tcd, txstate, chanvars, vc, desc, pool, cr, mux,
                   irq, pm, oops>>

\* The channel reports a transfer error (its bit in EDMA_ERR / CHn_ES).
HwError(ch) ==
    /\ ~oops
    /\ hw[ch].erq
    /\ hw[ch].eei
    /\ hw[ch].tcd_desc # NULL
    /\ ~hw[ch].err
    /\ hw' = [hw EXCEPT ![ch].err = TRUE]
    /\ UNCHANGED <<soc, tcdvars, chanvars, vc, desc, pool, cr, mux, irq, pm, oops>>

\* --------------------------------------------------------------- interrupts
\* The body of fsl_edma_tx_handler without the iscyclic test: every
\* descriptor is completed.
tx_handler_chan_no_cyclic(s, ch) ==
    IF s.edesc[ch] = NULL THEN [s EXCEPT !.oops = TRUE]
    ELSE LET d == s.edesc[ch]
         IN fsl_edma_xfer_desc(
                [vchan_cookie_complete(
                     [s EXCEPT !.vc[ch] = list_del(@, d)], ch, d)
                   EXCEPT !.edesc[ch] = NULL,
                          !.status[ch] = "DMA_COMPLETE",
                          !.idle[ch] = TRUE], ch)

\* Body of the loop of fsl_edma_tx_handler for one asserted channel, from
\* spin_lock to spin_unlock.  fsl_chan->edesc is dereferenced unchecked: with
\* edesc NULL the read of ->iscyclic faults (the only outcome of a kernel
\* NULL dereference: the handler never returns and the lock stays taken).
\* fsl_edma_tx_handler's body without the promotion of the next descriptor.
tx_handler_no_promotion(s, ch) ==
    IF s.edesc[ch] = NULL THEN [s EXCEPT !.oops = TRUE]
    ELSE LET d == s.edesc[ch]
         IN IF ~s.desc[d].iscyclic
            THEN [vchan_cookie_complete(
                      [s EXCEPT !.vc[ch] = list_del(@, d)], ch, d)
                    EXCEPT !.edesc[ch] = NULL,
                           !.status[ch] = "DMA_COMPLETE",
                           !.idle[ch] = TRUE]
            ELSE s

fsl_edma_tx_handler_chan(s, ch) ==
    IF s.edesc[ch] = NULL THEN [s EXCEPT !.oops = TRUE]
    ELSE LET d == s.edesc[ch]
             s1 == IF ~s.desc[d].iscyclic
                   THEN [vchan_cookie_complete(
                             [s EXCEPT !.vc[ch] = list_del(@, d)], ch, d)
                           EXCEPT !.edesc[ch] = NULL,
                                  !.status[ch] = "DMA_COMPLETE",
                                  !.idle[ch] = TRUE]
                   ELSE s
         IN IF s1.edesc[ch] = NULL THEN fsl_edma_xfer_desc(s1, ch) ELSE s1

\* The same body in fsl_edma3_tx_handler: idle is not written.
fsl_edma3_tx_handler_chan(s, ch) ==
    IF s.edesc[ch] = NULL THEN [s EXCEPT !.oops = TRUE]
    ELSE LET d == s.edesc[ch]
             s1 == IF ~s.desc[d].iscyclic
                   THEN [vchan_cookie_complete(
                             [s EXCEPT !.vc[ch] = list_del(@, d)], ch, d)
                           EXCEPT !.edesc[ch] = NULL,
                                  !.status[ch] = "DMA_COMPLETE"]
                   ELSE s
         IN IF s1.edesc[ch] = NULL THEN fsl_edma_xfer_desc(s1, ch) ELSE s1

\* An interrupt line is asserted while a channel it serves has its flag up.
IrqAsserted(l) ==
    IF l = "tx" THEN \E ch \in Chans : hw[ch].int
    ELSE \E ch \in Chans : hw[ch].err /\ hw[ch].eei

\* fsl_edma3_err_handler's entry: EDMA3_MP_ES.VLD is read.
Err3Entry(c) ==
    IF \E ch \in Chans : hw[ch].err
    THEN [c EXCEPT !.run = "err", !.scan = Chans, !.todo = {}, !.ph = 0]
    ELSE IdleIrq

\* What a handler does when its scan of the channels is over.
IrqFinish(l, c) ==
    IF c.run = "tx" /\ IsEdma3 /\ l = "err" /\ ~c.handled
    THEN Err3Entry(c)
    ELSE IdleIrq

\* The handler of line l starts.  eDMA2: EDMA_INTR is read once (the "err"
\* line runs fsl_edma_irq_handler: the tx handler, and only when EDMA_INTR
\* was 0 the error handler, which reads EDMA_ERR once).  eDMA3: the handler
\* starts scanning the channels.  The lines of the controller are served one
\* handler at a time.
IrqEntry(l) ==
    /\ ~oops
    /\ \A k \in Lines : irq[k].run = "idle"
    /\ IrqAsserted(l)
    /\ LET intr == {ch \in Chans : hw[ch].int}
           err == {ch \in Chans : hw[ch].err}
       IN irq' = [irq EXCEPT ![l] =
                    IF IsEdma3
                    THEN [IdleIrq EXCEPT !.run = "tx", !.scan = Chans]
                    ELSE IF intr # {}
                         THEN [IdleIrq EXCEPT !.run = "tx", !.todo = intr]
                         ELSE [IdleIrq EXCEPT !.run = "err", !.todo = err]]
    /\ UNCHANGED <<soc, tcdvars, chanvars, vc, desc, pool, hw, cr, mux, pm, oops>>

\* eDMA3 handlers: the status register of the next channel is read.
IrqScan(l) ==
    /\ ~oops
    /\ irq[l].run # "idle"
    /\ irq[l].todo = {}
    /\ irq[l].scan # {}
    /\ LET c == irq[l]
           ch == Min(c.scan)
           hit == IF c.run = "tx" THEN hw[ch].int ELSE hw[ch].err
           c1 == [c EXCEPT !.scan = @ \ {ch},
                           !.todo = IF hit THEN {ch} ELSE {},
                           !.handled = @ \/ (hit /\ c.run = "tx")]
       IN irq' = [irq EXCEPT ![l] = IF c1.scan = {} /\ c1.todo = {}
                                    THEN IrqFinish(l, c1) ELSE c1]
    /\ UNCHANGED <<soc, tcdvars, chanvars, vc, desc, pool, hw, cr, mux, pm, oops>>

\* The completion of one asserted channel: its flag is cleared (CINT, or
\* CHn_INT written with INT), then the locked body runs.
TxChan(l) ==
    /\ ~oops
    /\ irq[l].run = "tx"
    /\ irq[l].todo # {}
    /\ LET c == irq[l]
           ch == Min(c.todo)
           s0 == [Cur EXCEPT !.hw[ch].int = FALSE]
           s1 == IF IsEdma3 THEN fsl_edma3_tx_handler_chan(s0, ch)
                 ELSE fsl_edma_tx_handler_chan(s0, ch)
           c1 == [c EXCEPT !.todo = @ \ {ch}]
       IN /\ Commit(s1)
          /\ irq' = [irq EXCEPT ![l] =
                       IF s1.oops THEN c
                       ELSE IF c1.scan = {} /\ c1.todo = {}
                            THEN IrqFinish(l, c1) ELSE c1]
    /\ TcdRegsLoaded
    /\ UNCHANGED <<soc, tcd_le, tcd_io, fsc, tcd, txstate, pm_state, slave_id, fsc_dir, client_count, cr, mux, pm>>

\* The error handlers' first half with both generations calling
\* fsl_edma_disable_request.
err_handler_hw_v2_call(h, ch) ==
    [fsl_edma_disable_request(h, ch) EXCEPT ![ch].err = FALSE]

\* Error handlers, first half of the body for one asserted channel: the
\* request is disabled and the error flag cleared.  No lock is taken.
err_handler_hw(h, ch) ==
    LET h1 == IF IsEdma3 THEN fsl_edma3_disable_request(h, ch)
              ELSE fsl_edma_disable_request(h, ch)
    IN [h1 EXCEPT ![ch].err = FALSE]

ErrChanHw(l) ==
    /\ ~oops
    /\ irq[l].run = "err"
    /\ irq[l].todo # {}
    /\ irq[l].ph = 0
    /\ hw' = err_handler_hw(hw, Min(irq[l].todo))
    /\ irq' = [irq EXCEPT ![l].ph = 1]
    /\ UNCHANGED <<soc, tcdvars, chanvars, vc, desc, pool, cr, mux, pm, oops>>

\* Second half: chans[ch].status = DMA_ERROR, and in fsl_edma_err_handler
\* chans[ch].idle = true.
err_handler_sw(s, ch) ==
    IF IsEdma3 THEN [s EXCEPT !.status[ch] = "DMA_ERROR"]
    ELSE [s EXCEPT !.status[ch] = "DMA_ERROR", !.idle[ch] = TRUE]

ErrChanSw(l) ==
    /\ ~oops
    /\ irq[l].run = "err"
    /\ irq[l].todo # {}
    /\ irq[l].ph = 1
    /\ LET c == irq[l]
           ch == Min(c.todo)
           c1 == [c EXCEPT !.todo = @ \ {ch}, !.ph = 0]
       IN /\ Commit(err_handler_sw(Cur, ch))
          /\ irq' = [irq EXCEPT ![l] = IF c1.scan = {} /\ c1.todo = {}
                                       THEN IdleIrq ELSE c1]
    /\ UNCHANGED <<soc, tcdvars, pm_state, slave_id, fsc_dir, client_count, cr, mux, pm>>

\* ---------------------------------------------------------- power management
\* One iteration of the loop of fsl_edma_suspend_late, under the channel lock.
\* The request is disabled with fsl_edma_disable_request, called directly.
suspend_late_chan(s, ch) ==
    IF ~s.idle[ch] THEN [s EXCEPT !.hw = fsl_edma_disable_request(s.hw, ch)]
    ELSE s

fsl_edma_suspend_late ==
    /\ ~oops
    /\ pm.op \in {"running", "suspending"}
    /\ LET ch == pm.i
       IN /\ Commit(suspend_late_chan(Cur, ch))
          /\ mux' = IF ~idle[ch] THEN fsl_edma_chan_mux(mux, ch, 0, FALSE) ELSE mux
          /\ pm_state' = [pm_state EXCEPT ![ch] = "SUSPENDED"]
          /\ pm' = IF ch + 1 = NChans
                   THEN [op |-> "suspended", i |-> 0, ph |-> 0]
                   ELSE [op |-> "suspending", i |-> ch + 1, ph |-> 0]
    /\ UNCHANGED <<soc, tcdvars, slave_id, fsc_dir, client_count, cr, irq>>

\* fsl_edma_resume_early takes no lock, so other contexts run between its
\* writes: pm_state = RUNNING is one step, the register writes that follow
\* it (csr = 0, the mux) another.  After the last channel
\* fsl_edma_enable_arbitration is called directly.
ResumeSetRunning ==
    /\ ~oops
    /\ pm.op \in {"suspended", "resuming"}
    /\ pm.ph = 0
    /\ pm_state' = [pm_state EXCEPT ![pm.i] = "RUNNING"]
    /\ pm' = [op |-> "resuming", i |-> pm.i, ph |-> 1]
    /\ UNCHANGED <<soc, tcdvars, status, idle, slave_id, edesc, fsc_dir, client_count,
                   vc, desc, pool, hw, cr, mux, irq, oops>>

\* csr = 0 and the mux write of one channel; after the last channel the
\* arbitration write.
ResumeRegs ==
    /\ ~oops
    /\ pm.op = "resuming"
    /\ pm.ph = 1
    /\ hw' = [hw EXCEPT ![pm.i].csr = {}]
    /\ mux' = IF slave_id[pm.i] # 0
              THEN fsl_edma_chan_mux(mux, pm.i, slave_id[pm.i], TRUE)
              ELSE mux
    /\ IF pm.i + 1 = NChans
       THEN /\ cr' = fsl_edma_enable_arbitration
            /\ pm' = [op |-> "running", i |-> 0, ph |-> 0]
       ELSE /\ cr' = cr
            /\ pm' = [op |-> "resuming", i |-> pm.i + 1, ph |-> 0]
    /\ UNCHANGED <<soc, tcdvars, chanvars, vc, desc, pool, irq, oops>>

\* ---------------------------------------------------------------- the system
\* The hardware and the interrupt handlers.
Hw ==
    \/ \E ch \in Chans : HwMajorLoopDone(ch)
    \/ \E ch \in Chans : HwError(ch)
    \/ \E l \in Lines : IrqEntry(l)
    \/ \E l \in Lines : IrqScan(l)
    \/ \E l \in Lines : TxChan(l)
    \/ \E l \in Lines : ErrChanHw(l)
    \/ \E l \in Lines : ErrChanSw(l)

\* One client, which asks for a channel of DMAMUX 0 and uses every dmaengine
\* callback of the driver; the device stays powered.
Next ==
    \/ \E ch \in Chans, dir \in SlaveDirs : fsl_edma_slave_config(ch, dir)
    \/ \E ch \in Chans, n \in 1 .. MaxSgLen : fsl_edma_prep_slave_sg(ch, n)
    \/ \E ch \in Chans, n \in 1 .. MaxSgLen : fsl_edma_prep_dma_cyclic(ch, n)
    \/ \E ch \in Chans : vchan_tx_submit(ch)
    \/ \E ch \in Chans : fsl_edma_issue_pending(ch)
    \/ \E ch \in Chans : fsl_edma_pause(ch)
    \/ \E ch \in Chans : fsl_edma_resume(ch)
    \/ \E ch \in Chans : fsl_edma_terminate_all(ch)
    \/ \E ch \in Chans : vchan_complete(ch)
    \/ \E sl \in 0 .. MaxSlaveId : fsl_edma_xlate(0, sl)
    \/ \E ch \in Chans : fsl_edma_free_chan_resources(ch)
    \/ Hw

Spec == Init /\ [][Next]_vars

\* The same client with single-TCD memory-to-device transfers, and the
\* system suspending and resuming at any moment.
NextPM ==
    \/ \E ch \in Chans : fsl_edma_slave_config(ch, "DMA_MEM_TO_DEV")
    \/ \E ch \in Chans : fsl_edma_prep_slave_sg(ch, 1)
    \/ \E ch \in Chans : fsl_edma_prep_dma_cyclic(ch, 1)
    \/ \E ch \in Chans : vchan_tx_submit(ch)
    \/ \E ch \in Chans : fsl_edma_issue_pending(ch)
    \/ \E ch \in Chans : fsl_edma_pause(ch)
    \/ \E ch \in Chans : fsl_edma_resume(ch)
    \/ \E ch \in Chans : fsl_edma_terminate_all(ch)
    \/ \E ch \in Chans : vchan_complete(ch)
    \/ \E sl \in 0 .. MaxSlaveId : fsl_edma_xlate(0, sl)
    \/ \E ch \in Chans : fsl_edma_free_chan_resources(ch)
    \/ Hw
    \/ fsl_edma_suspend_late
    \/ ResumeSetRunning
    \/ ResumeRegs

SpecPM == Init /\ [][NextPM]_vars

\* Two clients, one per DMAMUX, with single-TCD slave transfers on both
\* channels at once.
NextTwo ==
    \/ \E ch \in Chans : fsl_edma_slave_config(ch, "DMA_MEM_TO_DEV")
    \/ \E ch \in Chans : fsl_edma_prep_slave_sg(ch, 1)
    \/ \E ch \in Chans : vchan_tx_submit(ch)
    \/ \E ch \in Chans : fsl_edma_issue_pending(ch)
    \/ \E ch \in Chans : fsl_edma_pause(ch)
    \/ \E ch \in Chans : fsl_edma_resume(ch)
    \/ \E ch \in Chans : fsl_edma_terminate_all(ch)
    \/ \E ch \in Chans : vchan_complete(ch)
    \/ \E b \in 0 .. (DMAMUX_NR - 1) : fsl_edma_xlate(b, MaxSlaveId)
    \/ Hw

SpecTwo == Init /\ [][NextTwo]_vars

\* ------------------------------------------------------------------ residue
\* The first loop of fsl_edma_desc_residue: the sum of nbytes * biter over
\* the first n TCDs of the chain c.
RECURSIVE desc_total(_, _)
desc_total(c, n) ==
    IF n = 0 THEN 0
    ELSE desc_total(c, n - 1) + c[n].vtcd.nbytes * c[n].vtcd.biter

\* The second loop of fsl_edma_desc_residue from entry i (from 1) on, len
\* being the value of the variable when the iteration starts.
RECURSIVE residue_loop(_, _, _, _, _, _)
residue_loop(c, n, dir, cur_addr, len, i) ==
    IF i > n THEN len
    ELSE LET size == c[i].vtcd.nbytes * c[i].vtcd.biter
             dma_addr == IF dir = "DMA_MEM_TO_DEV" THEN c[i].vtcd.saddr
                         ELSE c[i].vtcd.daddr
         IN IF cur_addr >= dma_addr /\ cur_addr < dma_addr + size
            THEN len - size + dma_addr + size - cur_addr
            ELSE residue_loop(c, n, dir, cur_addr, len - size, i + 1)

\* fsl_edma_desc_residue(fsl_chan, vdesc, in_progress): everything is read
\* through fsl_chan->edesc, vdesc is not used.  The callers hold the lock and
\* edesc is a live descriptor.  A size_t below zero is written as the
\* negative number it is congruent to (-k for 2^w - k); every value here is
\* within 2^31 of zero.
fsl_edma_desc_residue(ch, in_progress) ==
    LET e == edesc[ch]
        c == tcd[e].tcd
        n == desc[e].n_tcds
        dir == fsc_dir[ch]
        len == IF desc[e].iscyclic THEN tcd[e].cyclic_len
               ELSE desc_total(c, n)
        cur_addr == IF dir = "DMA_MEM_TO_DEV" THEN hw_tcd[ch].saddr
                    ELSE hw_tcd[ch].daddr
    IN IF ~in_progress THEN len
       ELSE IF desc[e].iscyclic THEN len - (cur_addr - c[1].vtcd.saddr)
       ELSE residue_loop(c, n, dir, cur_addr, len, 1)

\* fsl_edma_tx_status(chan, cookie, txstate) with txstate not NULL: what it
\* returns, the residue it leaves in txstate, and whether the residue was
\* computed with in_progress = true.  dma_cookie_status sets the residue to
\* 0.  Reading through an edesc that is NULL or freed is a fault.
fsl_edma_tx_status(ch, cookie) ==
    /\ Held(ch)
    /\ LET vdesc == vchan_find_desc(vc[ch], desc, cookie)
           active == edesc[ch] # NULL /\ cookie = desc[edesc[ch]].cookie
           fault == /\ dma_cookie_status(vc[ch], cookie) # "DMA_COMPLETE"
                    /\ active \/ vdesc # NULL
                    /\ \/ edesc[ch] = NULL
                       \/ desc[edesc[ch]].st # "live"
                       \/ tcd[edesc[ch]].tcd = <<>>
       IN /\ oops' = fault
          /\ txstate' =
               IF dma_cookie_status(vc[ch], cookie) = "DMA_COMPLETE"
               THEN [cookie |-> cookie, ret |-> "DMA_COMPLETE", residue |-> 0,
                     in_progress |-> FALSE]
               ELSE IF fault THEN txstate
               ELSE [cookie |-> cookie, ret |-> status[ch],
                     residue |-> IF active
                                 THEN fsl_edma_desc_residue(ch, TRUE)
                                 ELSE IF vdesc # NULL
                                 THEN fsl_edma_desc_residue(ch, FALSE)
                                 ELSE 0,
                     in_progress |-> active]
    /\ UNCHANGED <<soc, tcd_le, tcd_io, fsc, tcd, hw_tcd, chanvars, vc, desc, pool, hw, cr, mux,
                   irq, pm>>

\* A dma_slave_config: the device side is the source for DMA_DEV_TO_MEM and
\* the destination for DMA_MEM_TO_DEV, and the two halves differ.
SlaveCfg(dir, src, dst) ==
    [direction |-> dir,
     src_addr |-> 256, src_addr_width |-> src[1], src_maxburst |-> src[2],
     dst_addr |-> 4096, dst_addr_width |-> dst[1], dst_maxburst |-> dst[2]]

\* <<bus width, burst>> pairs: 16 bytes per request, and 1 byte per request.
BuildCfgs ==
    {SlaveCfg(dir, w[1], w[2]) :
        dir \in SlaveDirs,
        w \in {<< <<4, 4>>, <<1, 1>> >>, << <<1, 1>>, <<4, 4>> >>}}

\* Scatterlists of up to MaxSgLen entries: lengths that are and are not a
\* multiple of 16, and one of more than 0x7FFF bytes.
BuildSgLists ==
    UNION {[1 .. n -> {[dma_address |-> 65536, dma_len |-> 64],
                       [dma_address |-> 131072, dma_len |-> 20],
                       [dma_address |-> 131072, dma_len |-> 40000]}] :
           n \in 1 .. MaxSgLen}

\* Cyclic buffers of 1 .. MaxSgLen whole periods, and one that is not a whole
\* number of periods.
BuildCyclic ==
    {[dma_addr |-> 65536, buf_len |-> n * p, period_len |-> p] :
        n \in 1 .. MaxSgLen, p \in {64, 20}}
    \cup {[dma_addr |-> 65536, buf_len |-> 100, period_len |-> 64]}

\* One client that configures channel 0 and prepares descriptors from
\* scatterlists and cyclic buffers; nothing is issued.
NextBuild ==
    \/ fsl_edma_xlate(0, MaxSlaveId)
    \/ \E cfg \in BuildCfgs : fsl_edma_slave_config_cfg(0, cfg)
    \/ \E sgl \in BuildSgLists : fsl_edma_prep_slave_sg_sgl(0, sgl)
    \/ \E b \in BuildCyclic :
          fsl_edma_prep_dma_cyclic_buf(0, b.dma_addr, b.buf_len, b.period_len)
    \/ fsl_edma_terminate_all(0)

SpecBuild == Init /\ [][NextBuild]_vars

\* A division by zero in a prep callback that traps: the callback does not
\* return, the blocks it had taken from the pool stay taken.
prep_div0_trap(ch, taken) ==
    /\ Held(ch)
    /\ FreeIds # {}
    /\ oops' = TRUE
    /\ pool' = [pool EXCEPT ![ch] = @ + taken]
    /\ UNCHANGED <<soc, tcd_le, tcd_io, fsc, tcd, hw_tcd, txstate, chanvars, vc,
                   desc, hw, cr, mux, irq, pm>>

\* fsl_edma_prep_slave_sg reaches "sg_dma_len(sg) / nbytes" with nbytes = 0:
\* the direction is a slave direction, fsl_edma_alloc_desc has succeeded and
\* the loop runs at least once.
slave_sg_div0(ch, sgl) ==
    /\ ~PrepFails(ch, Len(sgl))
    /\ Len(sgl) > 0
    /\ fsc[ch].addr_width * fsc[ch].burst = 0

\* fsl_edma_prep_slave_sg for any scatterlist and any configuration.
fsl_edma_prep_slave_sg_any(ch, sgl) ==
    \/ fsl_edma_prep_slave_sg_sgl(ch, sgl)
    \/ slave_sg_div0(ch, sgl) /\ prep_div0_trap(ch, Len(sgl))

\* fsl_edma_prep_dma_cyclic for any buffer and any configuration: it divides
\* by period_len after the direction test, and by nbytes, outside the loop,
\* after fsl_edma_alloc_desc has succeeded.
fsl_edma_prep_dma_cyclic_any(ch, dma_addr, buf_len, period_len) ==
    \/ fsl_edma_prep_dma_cyclic_buf(ch, dma_addr, buf_len, period_len)
    \/ /\ is_slave_direction(fsc_dir[ch])
       /\ period_len = 0
       /\ prep_div0_trap(ch, 0)
    \/ /\ ~PrepFails(ch, udiv(buf_len, period_len))
       /\ fsc[ch].addr_width * fsc[ch].burst = 0
       /\ prep_div0_trap(ch, udiv(buf_len, period_len))

\* <<bus width, burst>> pairs with and without a 0.
ZeroCfgs ==
    {SlaveCfg(dir, w, w) :
        dir \in {"DMA_MEM_TO_DEV", "DMA_DEV_TO_MEM"},
        w \in {<<4, 1>>, <<0, 1>>, <<4, 0>>}}

\* Scatterlists of 0 .. MaxSgLen entries.
ZeroSgLists ==
    UNION {[1 .. n -> {[dma_address |-> 65536, dma_len |-> 64]}] :
           n \in 0 .. MaxSgLen}

\* Cyclic buffers: whole periods, a buffer shorter than one period, and a
\* period of 0 bytes.
ZeroCyclic ==
    {[dma_addr |-> 65536, buf_len |-> 128, period_len |-> 64],
     [dma_addr |-> 65536, buf_len |-> 32, period_len |-> 64],
     [dma_addr |-> 65536, buf_len |-> 64, period_len |-> 0]}

\* One client that configures channel 0 with any width and burst and
\* prepares descriptors from any scatterlist and any buffer.
NextZero ==
    \/ fsl_edma_xlate(0, MaxSlaveId)
    \/ \E cfg \in ZeroCfgs : fsl_edma_slave_config_cfg(0, cfg)
    \/ \E sgl \in ZeroSgLists : fsl_edma_prep_slave_sg_any(0, sgl)
    \/ \E b \in ZeroCyclic :
          fsl_edma_prep_dma_cyclic_any(0, b.dma_addr, b.buf_len, b.period_len)
    \/ fsl_edma_terminate_all(0)

SpecZero == Init /\ [][NextZero]_vars

\* One client with non-cyclic transfers on a powered controller: no pause,
\* no terminate, no release, and the channels report no error.
NextLive ==
    \/ fsl_edma_xlate(0, MaxSlaveId)
    \/ \E ch \in Chans : fsl_edma_slave_config(ch, "DMA_MEM_TO_DEV")
    \/ \E ch \in Chans, n \in 1 .. MaxSgLen : fsl_edma_prep_slave_sg(ch, n)
    \/ \E ch \in Chans : vchan_tx_submit(ch)
    \/ \E ch \in Chans : fsl_edma_issue_pending(ch)
    \/ \E ch \in Chans : vchan_complete(ch)
    \/ \E ch \in Chans : HwMajorLoopDone(ch)
    \/ \E l \in Lines : IrqEntry(l)
    \/ \E l \in Lines : IrqScan(l)
    \/ \E l \in Lines : TxChan(l)

\* The controller finishes the major loop of a TCD it was given and whose
\* request is enabled, and an asserted interrupt line gets its handler run
\* to the end.  The client is under no obligation.
FairLive ==
    /\ \A ch \in Chans : WF_vars(HwMajorLoopDone(ch))
    /\ \A l \in Lines : WF_vars(IrqEntry(l))
    /\ \A l \in Lines : WF_vars(IrqScan(l))
    /\ \A l \in Lines : WF_vars(TxChan(l))

SpecLive == Init /\ [][NextLive]_vars /\ FairLive

\* The client of NextLive, which may also call resume, on a system that
\* suspends and resumes at any moment.
NextPMLive ==
    \/ NextLive
    \/ \E ch \in Chans : fsl_edma_resume(ch)
    \/ fsl_edma_suspend_late
    \/ ResumeSetRunning
    \/ ResumeRegs

SpecPMLive == Init /\ [][NextPMLive]_vars /\ FairLive

\* Transfers of 4 bytes per request in either direction.
XferCfgs ==
    {SlaveCfg(dir, <<4, 1>>, <<4, 1>>) :
        dir \in {"DMA_MEM_TO_DEV", "DMA_DEV_TO_MEM"}}

\* Scatterlists of 8-byte entries: one entry, two entries in different
\* buffers, and two entries in the same buffer.
XferSgLists ==
    {<<[dma_address |-> 65536, dma_len |-> 8]>>,
     <<[dma_address |-> 65536, dma_len |-> 8],
       [dma_address |-> 131072, dma_len |-> 8]>>,
     <<[dma_address |-> 65536, dma_len |-> 8],
       [dma_address |-> 65536, dma_len |-> 8]>>}

\* One client on channel 0 whose transfers run on the hardware request by
\* request, and which asks for the status of the cookies it was given.
NextXfer ==
    \/ fsl_edma_xlate(0, MaxSlaveId)
    \/ \E cfg \in XferCfgs : fsl_edma_slave_config_cfg(0, cfg)
    \/ \E sgl \in XferSgLists : fsl_edma_prep_slave_sg_sgl(0, sgl)
    \/ fsl_edma_prep_dma_cyclic_buf(0, 65536, 16, 8)
    \/ vchan_tx_submit(0)
    \/ fsl_edma_issue_pending(0)
    \/ fsl_edma_terminate_all(0)
    \/ vchan_complete(0)
    \/ \E cookie \in (DMA_MIN_COOKIE + 1) .. vc[0].cookie :
          fsl_edma_tx_status(0, cookie)
    \/ HwMinorLoop(0)
    \/ HwMajorLoopDone(0)
    \/ IrqEntry("tx")
    \/ IrqScan("tx")
    \/ TxChan("tx")

SpecXfer == Init /\ [][NextXfer]_vars

\* ------------------------------------------------- TCD in memory (bytes)
\* struct fsl_edma_tcd: the byte offset and the size of every field.
TcdLayout ==
    [saddr |-> <<0, 4>>, soff |-> <<4, 2>>, attr |-> <<6, 2>>,
     nbytes |-> <<8, 4>>, slast |-> <<12, 4>>, daddr |-> <<16, 4>>,
     doff |-> <<20, 2>>, citer |-> <<22, 2>>, dlast_sga |-> <<24, 4>>,
     csr |-> <<28, 2>>, biter |-> <<30, 2>>]

\* EDMA_TCD_CSR_INT_MAJOR, EDMA_TCD_CSR_D_REQ and EDMA_TCD_CSR_E_SG as bits
\* of the 16-bit csr word.
CsrBits(flags) ==
    (IF "INT_MAJOR" \in flags THEN 2 ELSE 0)
    + (IF "D_REQ" \in flags THEN 8 ELSE 0)
    + (IF "E_SG" \in flags THEN 16 ELSE 0)

\* cpu_to_le16 / cpu_to_le32: byte k of the little-endian form of x, the
\* least significant byte at the lowest address.
cpu_to_le(x, k) == (x \div (256 ^ k)) % 256

\* le16_to_cpu / le32_to_cpu of the n bytes of mem that start at off.
RECURSIVE le_to_cpu(_, _, _)
le_to_cpu(mem, off, n) ==
    IF n = 0 THEN 0
    ELSE mem[off] + 256 * le_to_cpu(mem, off + 1, n - 1)

\* The bytes fsl_edma_fill_tcd leaves in the block for the field values t.
tcd_to_le(t) ==
    [a \in 0 .. (TcdSize - 1) |->
        LET f == CHOOSE g \in DOMAIN TcdLayout :
                     /\ TcdLayout[g][1] <= a
                     /\ a < TcdLayout[g][1] + TcdLayout[g][2]
            v == IF f = "csr" THEN CsrBits(t.csr) ELSE t[f]
        IN  cpu_to_le(v, a - TcdLayout[f][1])]

\* The values fsl_edma_set_tcd_regs reads out of the block before it writes
\* them to the registers; csr is the number, not the set of flags.
tcd_from_le(mem) ==
    [f \in DOMAIN TcdLayout |-> le_to_cpu(mem, TcdLayout[f][1], TcdLayout[f][2])]

\* Arguments of fsl_edma_fill_tcd: a base call, the same call with one
\* argument replaced by a small, a middle or the largest value of its width
\* (31 bits for the u32 arguments), every combination of the three flags, and
\* the call with every argument at its largest.
FillBase ==
    [src |-> 305419896, dst |-> 19088743, attr |-> 514, soff |-> 4,
     nbytes |-> 16, slast |-> 1985229328, citer |-> 3, biter |-> 5,
     doff |-> 8, dlast_sga |-> 8224, major_int |-> FALSE,
     disable_req |-> FALSE, enable_sg |-> FALSE]

FillArgs ==
    {[FillBase EXCEPT ![a] = v] :
        a \in {"src", "dst", "nbytes", "slast", "dlast_sga"},
        v \in {0, 1, 65536, 2147483647}}
    \cup {[FillBase EXCEPT ![a] = v] :
        a \in {"attr", "soff", "citer", "biter", "doff"},
        v \in {0, 1, 32767, 32768, 65535}}
    \cup {[FillBase EXCEPT !.major_int = i, !.disable_req = d, !.enable_sg = e] :
        i \in BOOLEAN, d \in BOOLEAN, e \in BOOLEAN}
    \cup {[src |-> 2147483647, dst |-> 2147483647, attr |-> 65535,
           soff |-> 65535, nbytes |-> 2147483647, slast |-> 2147483647,
           citer |-> 65535, biter |-> 65535, doff |-> 65535,
           dlast_sga |-> 2147483647, major_int |-> TRUE,
           disable_req |-> TRUE, enable_sg |-> TRUE]}

\* fsl_edma_fill_tcd on one block of memory.
fsl_edma_fill_tcd_le(f) ==
    /\ tcd_le' = tcd_to_le(fsl_edma_fill_tcd(f.src, f.dst, f.attr, f.soff,
                               f.nbytes, f.slast, f.citer, f.biter, f.doff,
                               f.dlast_sga, f.major_int, f.disable_req,
                               f.enable_sg))
    /\ UNCHANGED <<soc, tcd_io, fsc, tcd, hw_tcd, txstate, chanvars, vc, desc,
                   pool, hw, cr, mux, irq, pm, oops>>

\* A block of memory that is filled again and again.
NextFill == \E f \in FillArgs : fsl_edma_fill_tcd_le(f)

SpecFill == Init /\ [][NextFill]_vars

\* --------------------------------------------- TCD registers (bytes on the bus)
\* The writes of fsl_edma_set_tcd_regs in program order: the field of
\* struct fsl_edma_hw_tcd that is written and whether the value is 0 or the
\* field of the block in memory.
set_tcd_regs_writes ==
    <<[f |-> "csr", zero |-> TRUE], [f |-> "saddr", zero |-> FALSE],
      [f |-> "daddr", zero |-> FALSE], [f |-> "attr", zero |-> FALSE],
      [f |-> "soff", zero |-> FALSE], [f |-> "nbytes", zero |-> FALSE],
      [f |-> "slast", zero |-> FALSE], [f |-> "citer", zero |-> FALSE],
      [f |-> "biter", zero |-> FALSE], [f |-> "doff", zero |-> FALSE],
      [f |-> "dlast_sga", zero |-> FALSE], [f |-> "csr", zero |-> FALSE]>>

\* edma_writew without the swap of the register offset.
edma_write_unswapped(be, reg, val, addr, n) ==
    [a \in DOMAIN reg |->
        IF a < addr \/ a >= addr + n THEN reg[a]
        ELSE IF be THEN cpu_to_le(val, (n - 1) - (a - addr))
             ELSE cpu_to_le(val, a - addr)]

\* edma_writew (n = 2) and edma_writel (n = 4) of val to the register at
\* addr: iowrite16 / iowrite32 put the least significant byte at the lowest
\* address, iowrite16be / iowrite32be the most significant one, and a
\* big-endian controller has its 16-bit registers at addr ^ 0x2.
edma_write(be, reg, val, addr, n) ==
    LET at == IF be /\ n = 2
              THEN (IF (addr \div 2) % 2 = 0 THEN addr + 2 ELSE addr - 2)
              ELSE addr
    IN  [a \in DOMAIN reg |->
            IF a < at \/ a >= at + n THEN reg[a]
            ELSE IF be THEN cpu_to_le(val, (n - 1) - (a - at))
                 ELSE cpu_to_le(val, a - at)]

\* What the controller holds in the fields of its TCD: a little-endian
\* controller reads each register least significant byte first at its
\* offset; a big-endian one most significant byte first, its 16-bit
\* registers at the swapped offset.
HwTcdFields(be, reg) ==
    [f \in DOMAIN TcdLayout |->
        LET o == TcdLayout[f][1]
            n == TcdLayout[f][2]
            at == IF be /\ n = 2
                  THEN (IF (o \div 2) % 2 = 0 THEN o + 2 ELSE o - 2)
                  ELSE o
            le == [a \in 0 .. (n - 1) |->
                      IF be THEN reg[at + (n - 1) - a] ELSE reg[at + a]]
        IN  le_to_cpu(le, 0, n)]

\* The next write of fsl_edma_set_tcd_regs(fsl_chan, tcd) with tcd the block
\* in memory; after the last write the function returns.
set_tcd_regs_step ==
    /\ tcd_io.pc < Len(set_tcd_regs_writes)
    /\ LET w == set_tcd_regs_writes[tcd_io.pc + 1]
           val == IF w.zero THEN 0 ELSE tcd_from_le(tcd_le)[w.f]
       IN  tcd_io' = [tcd_io EXCEPT
                         !.reg = edma_write(tcd_io.be, @, val,
                                            TcdLayout[w.f][1],
                                            TcdLayout[w.f][2]),
                         !.pc = tcd_io.pc + 1]
    /\ UNCHANGED <<soc, tcd_le, fsc, tcd, hw_tcd, txstate, chanvars, vc, desc,
                   pool, hw, cr, mux, irq, pm, oops>>

\* fsl_edma_set_tcd_regs returns.
set_tcd_regs_return ==
    /\ tcd_io.pc = Len(set_tcd_regs_writes)
    /\ tcd_io' = [tcd_io EXCEPT !.pc = 0]
    /\ UNCHANGED <<soc, tcd_le, fsc, tcd, hw_tcd, txstate, chanvars, vc, desc,
                   pool, hw, cr, mux, irq, pm, oops>>

\* TCDs handed to fsl_edma_set_tcd_regs one after the other.
SetRegsArgs ==
    {f \in FillArgs :
        \/ f = FillBase
        \/ f.src # FillBase.src /\ f.src > 0
        \/ f.attr # FillBase.attr /\ f.attr > 1
        \/ f.major_int /\ f.enable_sg
        \/ f.disable_req /\ ~f.enable_sg}

\* A controller of either endianness; a TCD is built in memory while no
\* register write is under way, then written to the registers.
InitRegs ==
    /\ InitCommon
    /\ \E be \in BOOLEAN :
          tcd_io = [be |-> be, pc |-> 0, reg |-> [a \in 0 .. (TcdSize - 1) |-> 0]]

NextRegs ==
    \/ \E f \in SetRegsArgs : tcd_io.pc = 0 /\ fsl_edma_fill_tcd_le(f)
    \/ set_tcd_regs_step
    \/ set_tcd_regs_return

SpecRegs == InitRegs /\ [][NextRegs]_vars

\* ------------------------------------------------- mux of a full controller
\* dma-channels of a controller that uses every register of both DMAMUXes.
MuxChans == 16 * DMAMUX_NR

\* The first and the last channel of each DMAMUX and channels inside a
\* group of four.
MuxCallChans == {0, 5, 15, 16, 26, 31}

\* Slot numbers below and above the six bits of the SOURCE field.
MuxCallSlots == {1, 63, 65, 255}

\* fsl_edma_chan_mux on channel ch of a controller of MuxChans channels.
chan_mux_call(ch, slot, enable) ==
    /\ mux' = fsl_edma_chan_mux_n(MuxChans, mux, ch, slot, enable)
    /\ UNCHANGED <<soc, tcdvars, chanvars, vc, desc, pool, hw, cr, irq, pm,
                   oops>>

NextMux ==
    \E ch \in MuxCallChans, slot \in MuxCallSlots, enable \in BOOLEAN :
        chan_mux_call(ch, slot, enable)

SpecMux == Init /\ [][NextMux]_vars

\* ------------------------------------------------------------- observers
\* The steps that run with vchan.lock of channel ch held (spin_lock or
\* spin_lock_irqsave in the source, or inside virt-dma).
LockedStep(ch) ==
    \/ \E n \in 1 .. MaxSgLen : fsl_edma_prep_slave_sg(ch, n)
    \/ \E n \in 1 .. MaxSgLen : fsl_edma_prep_dma_cyclic(ch, n)
    \/ vchan_tx_submit(ch)
    \/ fsl_edma_issue_pending(ch)
    \/ fsl_edma_pause(ch)
    \/ fsl_edma_resume(ch)
    \/ fsl_edma_terminate_all(ch)
    \/ fsl_edma_free_chan_resources(ch)
    \/ vchan_complete(ch)
    \/ \E l \in Lines : TxChan(l) /\ Min(irq[l].todo) = ch
    \/ fsl_edma_suspend_late /\ pm.i = ch

\* The steps that run with fsl_edma->fsl_edma_mutex held: fsl_edma_xlate is
\* the only function that takes it.
MutexStep ==
    \E bank \in 0 .. (DMAMUX_NR - 1), slave \in 0 .. MaxSlaveId :
        fsl_edma_xlate(bank, slave)

\* What fsl_edma_tx_status returns for a cookie of channel ch: the result of
\* dma_cookie_status when that is DMA_COMPLETE, else fsl_chan->status.
tx_status_ret(ch, cookie) ==
    IF dma_cookie_status(vc[ch], cookie) = "DMA_COMPLETE" THEN "DMA_COMPLETE"
    ELSE status[ch]

\* ------------------------------------------------------------------ claims
\* C1: in every state reached with the channel locks free, a channel's edesc
\* is non-null if and only if its status is DMA_IN_PROGRESS or DMA_PAUSED.
C1_EdescIffActive ==
    ~oops =>
        \A ch \in Chans :
            (edesc[ch] # NULL) <=> (status[ch] \in {"DMA_IN_PROGRESS", "DMA_PAUSED"})

\* C2: the completion handler's body for a channel whose edesc is NULL is a
\* no-op: it does not fault, and it leaves the channel's descriptors, lists,
\* pool, edesc and status as they were.
C2_NullEdescInterruptIsNoop ==
    [][\A l \in Lines :
          TxChan(l) =>
              LET ch == Min(irq[l].todo)
              IN edesc[ch] = NULL =>
                     /\ ~oops'
                     /\ UNCHANGED <<status, idle, edesc, vc, desc, pool>>]_vars

\* C3: the completion handler's locked body for a channel whose edesc is not
\* cyclic puts the descriptor on desc_completed with its cookie completed,
\* takes it off desc_issued and off the channel; with nothing else issued
\* edesc is NULL and status DMA_COMPLETE, otherwise the next issued
\* descriptor is the edesc, its tcd[0] is in the channel's TCD registers, the
\* request is enabled and status is DMA_IN_PROGRESS.
C3_CompletionStep ==
    [][\A l \in Lines :
          TxChan(l) =>
              LET ch == Min(irq[l].todo)
                  d == edesc[ch]
                  rest == RemoveFrom(vc[ch].desc_issued, d)
              IN (d # NULL /\ ~desc[d].iscyclic) =>
                     /\ ~oops'
                     /\ vc'[ch].desc_issued = rest
                     /\ vc'[ch].desc_completed = Append(vc[ch].desc_completed, d)
                     /\ vc'[ch].completed_cookie = desc[d].cookie
                     /\ desc'[d] = desc[d]
                     /\ IF rest = <<>>
                        THEN /\ edesc'[ch] = NULL
                             /\ status'[ch] = "DMA_COMPLETE"
                        ELSE /\ edesc'[ch] = Head(rest)
                             /\ status'[ch] = "DMA_IN_PROGRESS"
                             /\ hw'[ch].tcd_desc = Head(rest)
                             /\ hw'[ch].tcd_idx = 0
                             /\ hw'[ch].csr = TcdCsr(desc[Head(rest)], 0)
                             /\ hw'[ch].erq]_vars

\* A handler still scanning after it completed one descriptor of a channel
\* and promoted the next: the request had been cleared by D_REQ and is on.
C3_Witness ==
    \E l \in Lines, ch \in Chans :
        /\ irq[l].run = "tx"
        /\ irq[l].handled
        /\ ~hw[ch].int
        /\ vc[ch].desc_completed # <<>>
        /\ edesc[ch] # NULL
        /\ vc[ch].desc_issued = <<edesc[ch]>>
        /\ desc[edesc[ch]].cookie = vc[ch].completed_cookie + 1
        /\ hw[ch].tcd_desc = edesc[ch]
        /\ hw[ch].erq
        /\ status[ch] = "DMA_IN_PROGRESS"

\* C4: fsl_edma_terminate_all leaves the channel with its request disabled,
\* edesc NULL, idle set, its four lists empty, every descriptor that was on
\* them (the edesc among them) freed and no TCD block out of the pool.
C4_TerminateAll ==
    [][\A ch \in Chans :
          fsl_edma_terminate_all(ch) =>
              /\ ~oops'
              /\ ~hw'[ch].erq
              /\ edesc'[ch] = NULL
              /\ idle'[ch]
              /\ vchan_get_all_descriptors(vc'[ch]) = <<>>
              /\ \A d \in Range(vchan_get_all_descriptors(vc[ch])) \cup
                          ({edesc[ch]} \ {NULL}) :
                     desc'[d].st = "freed"
              /\ \A d \in DescIds : ~(desc'[d].st = "live" /\ desc'[d].echan = ch)
              /\ pool'[ch] = 0]_vars

\* A channel terminated in the middle of a transfer: status still says
\* DMA_IN_PROGRESS, the descriptors are freed.
C4_Witness ==
    \E ch \in Chans :
        /\ client_count[ch] = 1
        /\ status[ch] = "DMA_IN_PROGRESS"
        /\ edesc[ch] = NULL
        /\ idle[ch]
        /\ ~hw[ch].erq
        /\ hw[ch].tcd_desc # NULL
        /\ desc[hw[ch].tcd_desc].st = "freed"
        /\ pool[ch] = 0
        /\ ~oops

\* C5: fsl_edma_issue_pending on a channel whose pm_state is SUSPENDED changes
\* nothing: the TCD registers, the request enable, edesc, status and the
\* lists of the channel stay as they are.
C5_SuspendedIssueIsNoop ==
    [][\A ch \in Chans :
          (fsl_edma_issue_pending(ch) /\ pm_state[ch] = "SUSPENDED") =>
              UNCHANGED <<hw, edesc, status, idle, vc, desc, pool, mux>>]_vars

\* A suspended channel whose client has a descriptor submitted and nothing
\* active: the call that is refused would have started the transfer.
C5_Witness ==
    \E ch \in Chans :
        /\ Held(ch)
        /\ pm_state[ch] = "SUSPENDED"
        /\ pm.op = "suspended"
        /\ vc[ch].desc_submitted # <<>>
        /\ edesc[ch] = NULL

\* C6: fsl_edma_issue_pending on a RUNNING channel starts the first queued
\* descriptor (its tcd[0] in the channel's TCD registers, request enabled,
\* status DMA_IN_PROGRESS) exactly when edesc is NULL and a descriptor is
\* queued; otherwise the channel's registers, edesc and status are unchanged.
C6_IssuePendingPromotes ==
    [][\A ch \in Chans :
          (fsl_edma_issue_pending(ch) /\ pm_state[ch] = "RUNNING") =>
              LET queued == vc[ch].desc_issued \o vc[ch].desc_submitted
              IN IF edesc[ch] = NULL /\ queued # <<>>
                 THEN /\ edesc'[ch] = Head(queued)
                      /\ hw'[ch].tcd_desc = Head(queued)
                      /\ hw'[ch].tcd_idx = 0
                      /\ hw'[ch].csr = TcdCsr(desc[Head(queued)], 0)
                      /\ hw'[ch].erq
                      /\ status'[ch] = "DMA_IN_PROGRESS"
                 ELSE /\ hw'[ch] = hw[ch]
                      /\ edesc'[ch] = edesc[ch]
                      /\ status'[ch] = status[ch]]_vars

\* A channel that never completed anything, with its first descriptor active
\* and in the registers and a second one issued behind it: the first call
\* promoted, the second left the transfer alone.
C6_Witness ==
    \E ch \in Chans :
        /\ vc[ch].completed_cookie = DMA_MIN_COOKIE
        /\ vc[ch].desc_completed = <<>>
        /\ Len(vc[ch].desc_issued) = 2
        /\ edesc[ch] = Head(vc[ch].desc_issued)
        /\ hw[ch].tcd_desc = edesc[ch]
        /\ hw[ch].erq
        /\ status[ch] = "DMA_IN_PROGRESS"

\* C7: the iteration of fsl_edma_suspend_late for a channel sets its pm_state
\* to SUSPENDED and, when the channel is not idle, leaves its request
\* disabled, on either generation.
C7_SuspendDisablesRequest ==
    [][fsl_edma_suspend_late =>
          /\ pm_state'[pm.i] = "SUSPENDED"
          /\ (~idle[pm.i] => ~hw'[pm.i].erq)]_vars

\* C8: no fsl_edma_issue_pending writes a channel's registers between the
\* moment fsl_edma_resume_early has set the channel RUNNING and the moment it
\* has reset the channel's csr and restored its mux slot.
C8_NoIssueBeforeResumeDone ==
    [][\A ch \in Chans :
          (fsl_edma_issue_pending(ch) /\ hw'[ch] # hw[ch]) =>
              ~(pm.op = "resuming" /\ pm.i = ch /\ pm.ph = 1)]_vars

\* C9: the error handler visits the channels whose error bit is up; for each
\* it disables the request and clears the bit, then sets status DMA_ERROR;
\* the registers, status and edesc of every other channel are unchanged.
C9_ErrorHandlerPerChannel ==
    [][\A l \in Lines :
          /\ (IrqEntry(l) /\ irq'[l].run = "err" /\ ~IsEdma3) =>
                 irq'[l].todo = {ch \in Chans : hw[ch].err}
          /\ (IrqScan(l) /\ irq[l].run = "err") =>
                 LET ch == Min(irq[l].scan)
                 IN irq'[l].run = "err" /\ ch \in irq'[l].todo <=> hw[ch].err
          /\ ErrChanHw(l) =>
                 LET ch == Min(irq[l].todo)
                 IN /\ ~hw'[ch].erq
                    /\ ~hw'[ch].err
                    /\ \A o \in Chans \ {ch} : hw'[o] = hw[o]
                    /\ UNCHANGED <<status, edesc>>
          /\ ErrChanSw(l) =>
                 LET ch == Min(irq[l].todo)
                 IN /\ status'[ch] = "DMA_ERROR"
                    /\ \A o \in Chans \ {ch} : status'[o] = status[o]
                    /\ UNCHANGED <<hw, edesc>>]_vars

\* An errored channel next to a channel whose transfer goes on.
C9_Witness ==
    \E ch \in Chans, o \in Chans :
        /\ o # ch
        /\ status[ch] = "DMA_ERROR"
        /\ ~hw[ch].erq
        /\ ~hw[ch].err
        /\ edesc[ch] # NULL
        /\ status[o] = "DMA_IN_PROGRESS"
        /\ edesc[o] # NULL
        /\ hw[o].erq

\* C10: a channel whose status is DMA_ERROR keeps that status in every step
\* that is not fsl_edma_terminate_all on it, with its request disabled.
C10_ErrorIsTerminal ==
    [][\A ch \in Chans :
          (status[ch] = "DMA_ERROR" /\ ~hw[ch].erq) =>
              \/ fsl_edma_terminate_all(ch)
              \/ (status'[ch] = "DMA_ERROR" /\ ~hw'[ch].erq)]_vars

\* C11: every step that writes status, edesc, idle, pm_state or the lists
\* of a channel is a step taken with that channel's lock held.
C11_SharedWritesUnderLock ==
    [][\A ch \in Chans :
          (<<status[ch], edesc[ch], idle[ch], pm_state[ch], vc[ch]>>' #
               <<status[ch], edesc[ch], idle[ch], pm_state[ch], vc[ch]>>)
              => LockedStep(ch)]_vars

\* C18: fsl_edma_tx_status never returns DMA_COMPLETE for the cookie of a
\* descriptor that is still on desc_submitted or desc_issued of the channel.
C18_NoCompleteWhileQueued ==
    ~oops =>
        \A ch \in Chans :
            \A d \in Range(vc[ch].desc_submitted \o vc[ch].desc_issued) :
                tx_status_ret(ch, desc[d].cookie) # "DMA_COMPLETE"

\* C19: the completion handler's locked body for a channel whose edesc is
\* cyclic clears the interrupt flag and nothing else: edesc, the
\* descriptors, the lists, the pool, the status and the TCD registers are
\* unchanged.
C19_CyclicCompletionFrame ==
    [][\A l \in Lines :
          TxChan(l) =>
              LET ch == Min(irq[l].todo)
                  d == edesc[ch]
              IN (d # NULL /\ desc[d].iscyclic) =>
                     /\ ~oops'
                     /\ UNCHANGED <<edesc, status, idle, vc, desc, pool>>
                     /\ hw' = [hw EXCEPT ![ch].int = FALSE]]_vars

\* A handler still scanning after it served the interrupt of a two-period
\* cyclic transfer that has moved on to its second TCD.
C19_Witness ==
    \E l \in Lines, ch \in Chans :
        /\ irq[l].run = "tx"
        /\ irq[l].handled
        /\ ~hw[ch].int
        /\ edesc[ch] # NULL
        /\ desc[edesc[ch]].iscyclic
        /\ hw[ch].tcd_desc = edesc[ch]
        /\ hw[ch].tcd_idx = 1
        /\ hw[ch].erq
        /\ status[ch] = "DMA_IN_PROGRESS"
        /\ vc[ch].desc_completed = <<>>

\* C20: fsl_edma_pause on a channel with an edesc disables the request and
\* sets DMA_PAUSED, fsl_edma_resume enables it and sets DMA_IN_PROGRESS;
\* neither changes edesc or the TCD in the registers, and with edesc NULL
\* both leave the status and the registers as they are.
C20_PauseResume ==
    [][\A ch \in Chans :
          /\ fsl_edma_pause(ch) =>
                 IF edesc[ch] # NULL
                 THEN /\ hw' = [hw EXCEPT ![ch].erq = FALSE, ![ch].eei = FALSE]
                      /\ status'[ch] = "DMA_PAUSED"
                      /\ edesc' = edesc
                 ELSE UNCHANGED <<hw, status, edesc>>
          /\ fsl_edma_resume(ch) =>
                 IF edesc[ch] # NULL
                 THEN /\ hw' = [hw EXCEPT ![ch].erq = TRUE, ![ch].eei = TRUE]
                      /\ status'[ch] = "DMA_IN_PROGRESS"
                      /\ edesc' = edesc
                 ELSE UNCHANGED <<hw, status, edesc>>]_vars

\* A transfer paused and resumed, then paused again: the descriptor is in
\* the registers, the request is off.
C20_Witness ==
    \E ch \in Chans :
        /\ status[ch] = "DMA_PAUSED"
        /\ edesc[ch] # NULL
        /\ hw[ch].tcd_desc = edesc[ch]
        /\ ~hw[ch].erq
        /\ idle[ch]
        /\ ~hw[ch].int
        /\ ~hw[ch].err

\* C12: when fsl_edma_prep_slave_sg returns a descriptor for a scatterlist of
\* k >= 1 entries, the descriptor has exactly k TCDs in k different blocks;
\* each of the first k - 1 has E_SG set and dlast_sga equal to the ptcd of the
\* next one; the last has D_REQ and INT_MAJOR set, E_SG clear, and a dlast_sga
\* that is the ptcd of no entry of the chain.
C12_SlaveSgChain ==
    [][\A sgl \in BuildSgLists :
          fsl_edma_prep_slave_sg_sgl(0, sgl) /\ ~PrepFails(0, Len(sgl)) =>
              LET k == Len(sgl)
                  c == tcd'[Min(FreeIds)].tcd
              IN /\ Len(c) = k
                 /\ desc'[Min(FreeIds)].n_tcds = k
                 /\ \A i, j \in 1 .. k : i # j => c[i].ptcd # c[j].ptcd
                 /\ \A i \in 1 .. (k - 1) :
                       /\ "E_SG" \in c[i].vtcd.csr
                       /\ c[i].vtcd.dlast_sga = c[i + 1].ptcd
                 /\ {"D_REQ", "INT_MAJOR"} \subseteq c[k].vtcd.csr
                 /\ "E_SG" \notin c[k].vtcd.csr
                 /\ \A i \in 1 .. k : c[k].vtcd.dlast_sga # c[i].ptcd]_vars

\* A scatter-gather descriptor of MaxSgLen TCDs has been built.
C12_Witness ==
    \E d \in DescIds : /\ desc[d].st = "live"
                       /\ ~desc[d].iscyclic
                       /\ Len(tcd[d].tcd) = MaxSgLen

\* C13: when fsl_edma_prep_dma_cyclic returns a descriptor for a buffer of
\* L bytes in periods of P bytes with L mod P = 0, the descriptor is cyclic
\* and has n = L / P TCDs in n different blocks; dlast_sga of entry i is the
\* ptcd of entry (i + 1) mod n; the memory address of entry i is the buffer
\* address plus i * P; every entry has INT_MAJOR and E_SG set and D_REQ clear.
C13_CyclicRing ==
    [][\A b \in BuildCyclic :
          /\ fsl_edma_prep_dma_cyclic_buf(0, b.dma_addr, b.buf_len, b.period_len)
          /\ ~PrepFails(0, b.buf_len \div b.period_len)
          /\ b.buf_len % b.period_len = 0
          => LET n == b.buf_len \div b.period_len
                 c == tcd'[Min(FreeIds)].tcd
             IN /\ Len(c) = n
                /\ desc'[Min(FreeIds)].iscyclic
                /\ desc'[Min(FreeIds)].n_tcds = n
                /\ tcd'[Min(FreeIds)].cyclic_len = b.buf_len
                /\ \A i, j \in 1 .. n : i # j => c[i].ptcd # c[j].ptcd
                /\ \A i \in 1 .. n :
                      /\ c[i].vtcd.dlast_sga = c[(i % n) + 1].ptcd
                      /\ (IF fsc_dir[0] = "DMA_MEM_TO_DEV"
                          THEN c[i].vtcd.saddr ELSE c[i].vtcd.daddr)
                         = b.dma_addr + (i - 1) * b.period_len
                      /\ {"INT_MAJOR", "E_SG"} \subseteq c[i].vtcd.csr
                      /\ "D_REQ" \notin c[i].vtcd.csr]_vars

\* A cyclic descriptor of MaxSgLen whole periods has been built.
C13_Witness ==
    \E d \in DescIds : /\ desc[d].st = "live"
                       /\ desc[d].iscyclic
                       /\ Len(tcd[d].tcd) = MaxSgLen
                       /\ tcd[d].cyclic_len % MaxSgLen = 0

\* C14: on a channel configured with address width w and burst b, every TCD
\* that a prep callback builds has nbytes = w * b and citer = biter =
\* length / (w * b), with nbytes * biter equal to the length (the length of
\* the scatterlist entry, or the period length for cyclic); for
\* DMA_MEM_TO_DEV saddr is the memory address, soff = w, daddr is the device
\* address and doff = 0, and the reverse for DMA_DEV_TO_MEM.
C14_TcdCounts ==
    [][LET w == fsc[0].addr_width
           b == fsc[0].burst
           Built(t, len, mem) ==
               /\ t.nbytes = w * b
               /\ t.citer = len \div (w * b)
               /\ t.biter = len \div (w * b)
               /\ t.nbytes * t.biter = len
               /\ IF fsc_dir[0] = "DMA_MEM_TO_DEV"
                  THEN /\ t.saddr = mem /\ t.soff = w
                       /\ t.daddr = fsc[0].dev_addr /\ t.doff = 0
                  ELSE /\ t.daddr = mem /\ t.doff = w
                       /\ t.saddr = fsc[0].dev_addr /\ t.soff = 0
       IN /\ \A sgl \in BuildSgLists :
                fsl_edma_prep_slave_sg_sgl(0, sgl) /\ ~PrepFails(0, Len(sgl))
                => \A i \in 1 .. Len(sgl) :
                      Built(tcd'[Min(FreeIds)].tcd[i].vtcd, sgl[i].dma_len,
                            sgl[i].dma_address)
          /\ \A c \in BuildCyclic :
                /\ fsl_edma_prep_dma_cyclic_buf(0, c.dma_addr, c.buf_len,
                                                c.period_len)
                /\ ~PrepFails(0, c.buf_len \div c.period_len)
                => \A i \in 1 .. (c.buf_len \div c.period_len) :
                      Built(tcd'[Min(FreeIds)].tcd[i].vtcd, c.period_len,
                            c.dma_addr + (i - 1) * c.period_len)]_vars

\* C15: for a non-cyclic descriptor that is the channel's active one, a
\* fsl_edma_tx_status call never reports a larger residue than the call
\* before it reported for the same cookie while the descriptor was active
\* (whatever the addresses of its segments), and never reports residue 0
\* before the completion interrupt has been handled; a call for a completed
\* cookie reports residue 0.
C15_ResidueMonotone ==
    [][\A cookie \in (DMA_MIN_COOKIE + 1) .. (DMA_MIN_COOKIE + MaxDesc) :
          fsl_edma_tx_status(0, cookie) =>
              /\ (/\ txstate'.in_progress
                  /\ ~desc[edesc[0]].iscyclic
                  /\ txstate.cookie = cookie
                  /\ txstate.in_progress)
                 => txstate'.residue <= txstate.residue
              /\ (txstate'.in_progress /\ ~desc[edesc[0]].iscyclic)
                 => txstate'.residue # 0
              /\ dma_cookie_status(vc[0], cookie) = "DMA_COMPLETE"
                 => txstate'.residue = 0]_vars

\* C16: for a cyclic descriptor that is the channel's active one, in either
\* direction, the residue that fsl_edma_tx_status reports is at least 0 and
\* at most cyclic_len, and equals cyclic_len minus the distance of the live
\* memory address (saddr for DMA_MEM_TO_DEV, daddr for DMA_DEV_TO_MEM) from
\* the memory address of the first TCD.
C16_CyclicResidue ==
    [][\A cookie \in (DMA_MIN_COOKIE + 1) .. (DMA_MIN_COOKIE + MaxDesc) :
          /\ fsl_edma_tx_status(0, cookie)
          /\ txstate'.in_progress
          /\ desc[edesc[0]].iscyclic
          => LET first == tcd[edesc[0]].tcd[1].vtcd
                 start == IF fsc_dir[0] = "DMA_MEM_TO_DEV"
                          THEN first.saddr ELSE first.daddr
                 live == IF fsc_dir[0] = "DMA_MEM_TO_DEV"
                         THEN hw_tcd[0].saddr ELSE hw_tcd[0].daddr
             IN /\ txstate'.residue >= 0
                /\ txstate'.residue <= tcd[edesc[0]].cyclic_len
                /\ txstate'.residue
                   = tcd[edesc[0]].cyclic_len - (live - start)]_vars

\* C17: a fsl_edma_tx_status call for the cookie of a descriptor that is on
\* desc_submitted or desc_issued and is not the channel's edesc does not
\* fault and reports the total size of that descriptor, the sum of
\* nbytes * biter over its own TCDs, whichever descriptor is the channel's
\* edesc and also when edesc is NULL.
C17_QueuedResidue ==
    [][\A d \in DescIds :
          /\ d \in Range(vc[0].desc_submitted \o vc[0].desc_issued)
          /\ d # edesc[0]
          /\ ~desc[d].iscyclic
          /\ fsl_edma_tx_status(0, desc[d].cookie)
          => /\ ~oops'
             /\ txstate'.residue = desc_total(tcd[d].tcd, desc[d].n_tcds)]_vars

\* C21: fsl_edma_slave_config with direction DMA_DEV_TO_MEM or
\* DMA_MEM_TO_DEV stores the direction and the width, device address and
\* burst of the device side of cfg, with the attribute derived from the
\* width; with any other direction it changes none of the stored slave
\* parameters, the direction included.
C21_SlaveConfig ==
    [][\A cfg \in BuildCfgs :
          fsl_edma_slave_config_cfg(0, cfg) =>
              IF cfg.direction = "DMA_DEV_TO_MEM"
              THEN /\ fsc_dir'[0] = cfg.direction
                   /\ fsc'[0] = [addr_width |-> cfg.src_addr_width,
                                 burst |-> cfg.src_maxburst,
                                 dev_addr |-> cfg.src_addr,
                                 attr |-> fsl_edma_get_tcd_attr(
                                              cfg.src_addr_width)]
              ELSE IF cfg.direction = "DMA_MEM_TO_DEV"
              THEN /\ fsc_dir'[0] = cfg.direction
                   /\ fsc'[0] = [addr_width |-> cfg.dst_addr_width,
                                 burst |-> cfg.dst_maxburst,
                                 dev_addr |-> cfg.dst_addr,
                                 attr |-> fsl_edma_get_tcd_attr(
                                              cfg.dst_addr_width)]
              ELSE UNCHANGED <<fsc, fsc_dir>>]_vars

C23_TcdRoundTrip ==
    [][\A f \in FillArgs :
          fsl_edma_fill_tcd_le(f) =>
              LET t == tcd_from_le(tcd_le')
              IN  /\ t.saddr = f.src /\ t.daddr = f.dst
                  /\ t.nbytes = f.nbytes /\ t.slast = f.slast
                  /\ t.dlast_sga = f.dlast_sga
                  /\ t.attr = f.attr /\ t.soff = f.soff /\ t.doff = f.doff
                  /\ t.citer = f.citer /\ t.biter = f.biter
                  /\ ((t.csr \div 2) % 2 = 1) = f.major_int
                  /\ ((t.csr \div 8) % 2 = 1) = f.disable_req
                  /\ ((t.csr \div 16) % 2 = 1) = f.enable_sg
                  /\ t.csr = CsrBits(fsl_edma_fill_tcd(f.src, f.dst, f.attr,
                                 f.soff, f.nbytes, f.slast, f.citer, f.biter,
                                 f.doff, f.dlast_sga, f.major_int,
                                 f.disable_req, f.enable_sg).csr)]_vars

\* C24: fsl_edma_chan_mux(channel, slot, enable) changes one byte register
\* only, the one of DMAMUX channel / 16 at the offset the generation gives
\* for channel mod 16 (the channel number itself on vf610, the mirrored
\* place inside its group of four otherwise); it writes 0x80 | (slot & 0x3F)
\* to enable and 0 to disable, at the same offset.  On a controller of 32
\* channels, channel 5 is in DMAMUX 0 at offset 6 of its group 4..7 (5 on
\* vf610).
C24_ChanMux ==
    [][\A ch \in MuxCallChans, slot \in MuxCallSlots, enable \in BOOLEAN :
          chan_mux_call(ch, slot, enable) =>
              LET k == ch % 16
                  off == IF soc = "vf610" THEN k
                         ELSE (4 * (k \div 4)) + (3 - (k % 4))
                  r == <<ch \div 16, off>>
              IN  /\ DOMAIN mux' = DOMAIN mux
                  /\ r \in DOMAIN mux
                  /\ mux'[r] = IF enable THEN 128 + (slot % 64) ELSE 0
                  /\ \A q \in DOMAIN mux \ {r} : mux'[q] = mux[q]
                  /\ (ch = 5 =>
                         r = <<0, IF soc = "vf610" THEN 5 ELSE 6>>)]_vars

\* Channel 5 and channel 31 of an s32v234 are routed, channel 31 with a slot
\* number of more than six bits, and channel 0 was disabled again.
C24_Witness ==
    /\ soc = "s32v234"
    /\ mux[<<0, 6>>] = 129
    /\ mux[<<1, 12>>] = 191
    /\ mux[<<0, 3>>] = EDMAMUX_CHCFG_DIS
    /\ \A r \in DOMAIN mux :
          mux[r] # EDMAMUX_CHCFG_DIS => r \in {<<0, 6>>, <<1, 12>>}

\* C25: every step that writes a register of the DMAMUX block (channel
\* request, release, suspend, resume) runs with the controller-wide
\* fsl_edma_mutex held.
C25_MuxWritesUnderMutex ==
    [][mux' # mux => MutexStep]_vars

\* C26: a channel request for (bank, peripheral id) that finds a channel of
\* that bank without a client hands out exactly one such channel, records
\* the peripheral id in it and enables its mux slot with that id, and leaves
\* every other channel as it was; a request that finds every channel of the
\* bank in use returns NULL and changes nothing.  No channel ever has two
\* clients.
C26_Xlate ==
    [][\A bank \in 0 .. (DMAMUX_NR - 1), slave \in 0 .. MaxSlaveId :
          fsl_edma_xlate(bank, slave) =>
              LET InBank(ch) == ch \div (NChans \div DMAMUX_NR) = bank
                  Off(ch) ==
                      LET k == ch % (NChans \div DMAMUX_NR)
                      IN  IF soc = "vf610" THEN k
                          ELSE (4 * (k \div 4)) + (3 - (k % 4))
                  got == {ch \in Chans : client_count'[ch] # client_count[ch]}
              IN  /\ \A ch \in Chans : client_count'[ch] \in {0, 1}
                  /\ IF \E ch \in Chans : InBank(ch) /\ client_count[ch] = 0
                     THEN /\ Cardinality(got) = 1
                          /\ \A ch \in got :
                                /\ InBank(ch)
                                /\ client_count[ch] = 0
                                /\ client_count'[ch] = 1
                                /\ slave_id'[ch] = slave
                                /\ mux'[<<bank, Off(ch)>>] = 128 + slave
                          /\ \A ch \in Chans \ got :
                                slave_id'[ch] = slave_id[ch]
                     ELSE /\ got = {}
                          /\ slave_id' = slave_id /\ mux' = mux]_vars

\* Every channel has been handed out, each to one client, so that a further
\* request for either bank fails.
C26_Witness ==
    /\ \A ch \in Chans : client_count[ch] = 1 /\ slave_id[ch] = MaxSlaveId
    /\ \A r \in DOMAIN mux :
          mux[r] # EDMAMUX_CHCFG_DIS => mux[r] = EDMAMUX_CHCFG_ENBL + MaxSlaveId

\* C27: the number of TCD blocks out of a channel's pool is the sum of
\* n_tcds over the descriptors that exist on the channel: an allocation that
\* fails has given back every block it took, and a descriptor that was freed
\* has given back all of its blocks, once.
C27_PoolConservation ==
    \A ch \in Chans :
        LET held[k \in 0 .. MaxDesc] ==
                IF k = 0 THEN 0
                ELSE held[k - 1]
                     + (IF desc[k].st = "live" /\ desc[k].echan = ch
                        THEN desc[k].n_tcds ELSE 0)
        IN  pool[ch] = held[MaxDesc]

\* One descriptor was freed and one of MaxSgLen entries exists on channel 0.
C27_Witness ==
    \E d \in DescIds, e \in DescIds :
        /\ desc[d].st = "freed"
        /\ desc[e].st = "live" /\ desc[e].echan = 0
        /\ desc[e].n_tcds = MaxSgLen
        /\ pool[0] = MaxSgLen

\* C28: on a controller of either generation the request-line writes of
\* terminate_all, pause, resume, issue_pending and suspend_late, and the
\* arbitration write that ends resume_early, are those of the operations in
\* the controller's own socdata->ops table.
C28_OpsTableOnly ==
    [][LET Req(h, ch) == <<h[ch].erq, h[ch].eei>> IN
           /\ \A ch \in Chans :
                /\ fsl_edma_terminate_all(ch) =>
                       Req(hw', ch) = Req(edma_disable_request(hw, ch), ch)
                /\ (fsl_edma_pause(ch) /\ edesc[ch] # NULL) =>
                       Req(hw', ch) = Req(edma_disable_request(hw, ch), ch)
                /\ (fsl_edma_resume(ch) /\ edesc[ch] # NULL) =>
                       Req(hw', ch) = Req(edma_enable_request(hw, ch), ch)
                /\ (fsl_edma_issue_pending(ch) /\ edesc'[ch] # edesc[ch]) =>
                       Req(hw', ch) = Req(edma_enable_request(hw, ch), ch)
           /\ (fsl_edma_suspend_late /\ ~idle[pm.i]) =>
                  Req(hw', pm.i) = Req(edma_disable_request(hw, pm.i), pm.i)
           /\ (ResumeRegs /\ pm.i + 1 = NChans) =>
                  cr' = edma_enable_arbitration]_vars

\* C29: when the completion handler marks a descriptor complete, the
\* controller has finished the transfer of that descriptor: the registers of
\* the channel hold its TCD and the request was switched off by D_REQ at the
\* end of its last major loop.  One handled interrupt completes at most one
\* descriptor.
C29_CompletesOwnTransfer ==
    [][\A l \in Lines :
          (TxChan(l) /\ ~oops') =>
              LET ch == Min(irq[l].todo)
                  d == edesc[ch]
              IN  /\ Len(vc'[ch].desc_completed)
                         <= Len(vc[ch].desc_completed) + 1
                  /\ (d # NULL /\ ~desc[d].iscyclic) =>
                         /\ hw[ch].tcd_desc = d
                         /\ ~hw[ch].erq]_vars

\* C30: while the pm_state of a channel is SUSPENDED, neither
\* fsl_edma_issue_pending nor the completion handler's promotion of the next
\* queued descriptor writes a TCD to the registers of the channel or turns
\* its request on.
C30_SuspendedNoProgramming ==
    [][\A ch \in Chans :
          (/\ pm_state[ch] = "SUSPENDED"
           /\ \/ fsl_edma_issue_pending(ch)
              \/ \E l \in Lines : TxChan(l) /\ Min(irq[l].todo) = ch) =>
              /\ hw'[ch].tcd_desc = hw[ch].tcd_desc
              /\ hw'[ch].csr = hw[ch].csr
              /\ (hw'[ch].erq => hw[ch].erq)]_vars

\* C31: while a channel is paused (status DMA_PAUSED with the paused
\* descriptor still its edesc, so no fsl_edma_terminate_all came since) its
\* request stays disabled until fsl_edma_resume is called: no other step,
\* the completion handler with another descriptor queued included, turns the
\* request on.
C31_PausedStaysDisabled ==
    [][\A ch \in Chans :
          (/\ status[ch] = "DMA_PAUSED"
           /\ edesc[ch] # NULL
           /\ ~hw[ch].erq
           /\ hw'[ch].erq) => fsl_edma_resume(ch)]_vars

\* C32: on both generations the idle flag of a channel follows the
\* transfer: it is true after a completion that promotes nothing, after the
\* error handler, after pause and after terminate_all, and false after a
\* descriptor was loaded by issue_pending or by the completion handler.
C32_IdleFollowsTransfer ==
    [][\A ch \in Chans :
          /\ (\E l \in Lines :
                 /\ TxChan(l) /\ Min(irq[l].todo) = ch
                 /\ ~oops' /\ edesc'[ch] = NULL) => idle'[ch]
          /\ (\E l \in Lines :
                 /\ TxChan(l) /\ Min(irq[l].todo) = ch
                 /\ ~oops' /\ edesc'[ch] # NULL /\ edesc'[ch] # edesc[ch]) =>
                 ~idle'[ch]
          /\ (\E l \in Lines : ErrChanSw(l) /\ Min(irq[l].todo) = ch) =>
                 idle'[ch]
          /\ (fsl_edma_pause(ch) /\ edesc[ch] # NULL) => idle'[ch]
          /\ fsl_edma_terminate_all(ch) => idle'[ch]
          /\ (fsl_edma_issue_pending(ch) /\ edesc'[ch] # edesc[ch]) =>
                 ~idle'[ch]]_vars

\* C33: fsl_edma_set_tcd_regs clears the control/status word of the channel
\* with its first write, and the word stays 0 in the controller while the
\* addresses, attributes, offsets, byte count, iteration counts and link are
\* written; the flags of the TCD arrive with the last write, and then every
\* field the controller holds is the value decoded from the little-endian
\* block in memory, on a little-endian and on a big-endian controller.
C33_SetTcdRegsOrder ==
    [][set_tcd_regs_step =>
          LET now == HwTcdFields(tcd_io'.be, tcd_io'.reg)
              before == HwTcdFields(tcd_io.be, tcd_io.reg)
              mem == tcd_from_le(tcd_le)
          IN  /\ tcd_io'.pc < 12 => now.csr = 0
              /\ tcd_io'.pc = 12 =>
                     /\ now = mem
                     /\ \A f \in DOMAIN TcdLayout \ {"csr"} :
                           now[f] = before[f]
              /\ (tcd_io'.pc > 1 /\ tcd_io'.pc < 12) =>
                     LET f == <<"csr", "saddr", "daddr", "attr", "soff",
                                "nbytes", "slast", "citer", "biter", "doff",
                                "dlast_sga">>[tcd_io'.pc]
                     IN  /\ now[f] = mem[f]
                         /\ \A g \in DOMAIN TcdLayout \ {f} :
                               now[g] = before[g]]_vars

\* A big-endian controller holds a whole TCD with INT_MAJOR and E_SG; its
\* 16-bit control/status word is at the swapped offset, high byte first.
C33_Witness ==
    /\ tcd_io.be
    /\ tcd_io.pc = 0
    /\ HwTcdFields(tcd_io.be, tcd_io.reg) = tcd_from_le(tcd_le)
    /\ HwTcdFields(tcd_io.be, tcd_io.reg).csr = 18
    /\ HwTcdFields(tcd_io.be, tcd_io.reg).attr = 514
    /\ tcd_io.reg[30] = 0 /\ tcd_io.reg[31] = 18

\* C34: on one channel the descriptors are loaded and completed in the order
\* they were issued.  A descriptor that issue_pending or the completion
\* handler loads is the oldest issued one (the head of desc_issued, with the
\* smallest cookie); the handler completes the channel's active descriptor
\* edesc, which is that head, appends it to desc_completed, and every
\* descriptor still issued has a larger cookie.
C34_Fifo ==
    [][\A ch \in Chans :
          LET Oldest(d, v) ==
                  /\ v.desc_issued # <<>>
                  /\ d = Head(v.desc_issued)
                  /\ \A e \in Range(v.desc_issued) \ {d} :
                        desc'[e].cookie > desc'[d].cookie
          IN  /\ (fsl_edma_issue_pending(ch) /\ edesc'[ch] # edesc[ch]) =>
                     Oldest(edesc'[ch], vc'[ch])
              /\ (\E l \in Lines :
                     /\ TxChan(l) /\ Min(irq[l].todo) = ch
                     /\ ~oops' /\ ~desc[edesc[ch]].iscyclic) =>
                     /\ Oldest(edesc[ch], vc[ch])
                     /\ vc'[ch].desc_completed
                            = Append(vc[ch].desc_completed, edesc[ch])
                     /\ vc'[ch].desc_issued = Tail(vc[ch].desc_issued)
                     /\ (edesc'[ch] # NULL => Oldest(edesc'[ch], vc'[ch]))
                     /\ (edesc'[ch] = NULL => vc'[ch].desc_issued = <<>>)]_vars

\* A second descriptor is active after the first one was completed, that is,
\* the completion handler promoted it.
C34_Witness ==
    \E d \in DescIds, e \in DescIds :
        /\ vc[0].desc_completed = <<d>>
        /\ edesc[0] = e
        /\ vc[0].desc_issued = <<e>>
        /\ desc[d].cookie < desc[e].cookie
        /\ hw[0].tcd_desc = e

\* C35: a prep call on a configured channel either fails cleanly (nothing
\* changes) or returns a descriptor with at least one TCD, for every width and
\* burst (0 included), every scatterlist and every (buffer length, period
\* length) pair; it does not fault on a division by zero.
C35_PrepTotal ==
    [][\A ch \in Chans :
          ((\E sgl \in ZeroSgLists : fsl_edma_prep_slave_sg_any(ch, sgl))
           \/ (\E b \in ZeroCyclic :
                  fsl_edma_prep_dma_cyclic_any(ch, b.dma_addr, b.buf_len,
                                               b.period_len)))
          => /\ ~oops'
             /\ \/ UNCHANGED <<vc, desc, pool, tcd>>
                \/ \E d \in DescIds :
                      /\ desc[d].st = "none" /\ desc'[d].st = "live"
                      /\ desc'[d].n_tcds >= 1
                      /\ 1 \in DOMAIN tcd'[d].tcd]_vars

\* C36: when fsl_edma_resume_early has written the registers of a channel,
\* the channel's mux register holds ENBL | the recorded peripheral id if and
\* only if a client holds the channel: also for peripheral id 0, and not for
\* a channel that was never requested or has been released.
C36_ResumeRestoresRouting ==
    [][ResumeRegs =>
          LET ch == pm.i
              r == <<ch \div chans_per_mux,
                     mux_channel_mapping(ch % chans_per_mux)>>
          IN  (mux'[r] = EDMAMUX_CHCFG_ENBL + EDMAMUX_CHCFG_SOURCE(slave_id[ch]))
              <=> (client_count[ch] = 1)]_vars

\* C37: on a powered channel with no pause, terminate or error, every
\* non-cyclic descriptor on the issued list is eventually the one loaded into
\* the channel's registers and is eventually on the completed list, given
\* that the controller finishes what it was given and that raised interrupts
\* are handled; the client need not call anything after issue_pending.
C37_IssuedCompletes ==
    \A ch \in Chans, d \in DescIds :
        /\ (d \in Range(vc[ch].desc_issued) /\ ~desc[d].iscyclic)
               ~> (edesc[ch] = d /\ hw[ch].tcd_desc = d)
        /\ (d \in Range(vc[ch].desc_issued) /\ ~desc[d].iscyclic)
               ~> (d \in Range(vc[ch].desc_completed))

\* Two descriptors of channel 0 are complete and nothing is left to do.
C37_Witness ==
    /\ Len(vc[0].desc_completed) = 2
    /\ vc[0].desc_issued = <<>>
    /\ edesc[0] = NULL
    /\ ~oops

\* C38: while the system is running (before a suspend, or after the
\* power-resume that followed one), a non-cyclic descriptor on the issued
\* list of a channel is eventually the one loaded into the channel's
\* registers, unless the system suspends again first; no terminate is
\* needed, also when the channel was not idle when the suspend ran.
C38_ProgressAfterResume ==
    \A ch \in Chans, d \in DescIds :
        (/\ pm.op = "running"
         /\ d \in Range(vc[ch].desc_issued)
         /\ ~desc[d].iscyclic)
            ~> (\/ edesc[ch] = d /\ hw[ch].tcd_desc = d
                \/ pm.op # "running")

====
